---- MODULE Spec2Model ----
(***************************************************************************)
(* Model of the GUI automation engine of PromptSys                         *)
(* (backend/services/claude_cli_automation.py): the process cleanup of     *)
(* WindowManager and the delivery workflow of ClaudeCLIAutomation.         *)
(*                                                                         *)
(* Specifications of the module:                                           *)
(*   SpecCleanup   - WindowManager.cleanup_old_claude_processes            *)
(*   SpecPidReuse  - SpecCleanup with pids reused during the call           *)
(*   SpecBatch     - SpecCleanup plus cleanup_old_terminal_processes        *)
(*   SpecFlow      - ClaudeCLIAutomation.open_claude_cli_with_prompt and   *)
(*                   complete_automation_workflow                          *)
(*   FairSpecFlow  - SpecFlow with the running call always progressing     *)
(*   SpecWorkflows - SpecFlow plus complete_workflow_with_cleanup          *)
(*   SpecThreads   - SpecFlow called repeatedly, with the permission        *)
(*                   monitor threads of complete_automation_workflow       *)
(*   SpecWatcher   - SpecThreads plus the clicks of those threads          *)
(*   SpecSharedClipboard - SpecFlow with another writer of the clipboard   *)
(*   SpecKeyboard  - KeyboardController.send_paste_command, send_enter     *)
(*   SpecClipboard - ClipboardManager.copy_to_clipboard and                *)
(*                   verify_clipboard_content                              *)
(*   SpecMonitor, FairSpecMonitor - ScreenTextDetector.monitor_for_prompts *)
(*   SpecDetector  - ScreenTextDetector.detect_yes_proceed_options         *)
(*   SpecLaunch    - ProcessLauncher.launch_claude_cli                     *)
(*   SpecActivation - WindowManager.activate_window_by_pid                 *)
(*   SpecClick     - MacOSPermissionHandler.auto_click_allow_button        *)
(*   SpecActivateWindow - ClaudeCLIAutomation._activate_claude_cli_window  *)
(*   SpecPermission, FairSpecPermission - MacOSPermissionHandler.           *)
(*                   monitor_and_handle_permission_dialogs                  *)
(*   SpecLLM       - LLMClient.invoke (backend/clients/llm_client.py)      *)
(* Outcomes of the operating system (process termination, clipboard,       *)
(* window activation, key injection) are nondeterministic inputs.          *)
(***************************************************************************)
EXTENDS Integers, Sequences, FiniteSets, TLC

(* ---- bounds of the model ---- *)
MaxProcs == 3
MaxKeep == 2
MaxAttempts == 4
MaxTextLen == 12
MaxDuration == 10
MaxInterval == 2
MaxPolls == 12
MaxThreads == 2
MaxWindows == 2
MaxClicks == 1
MaxWrites == 1
MaxScanTime == 4
MaxDialogs == 2

VARIABLES
    \* WindowManager.cleanup_old_claude_processes
    cpc,                \* position: "idle", "loop", "done"
    enum_order,         \* matching processes in the order process_iter yields them
    keep_newest,        \* the keep_newest argument
    claude_processes,   \* result of find_claude_cli_windows (sorted)
    processes_to_keep,
    processes_to_clean,
    cidx,               \* index of the next process of the termination loop
    result,             \* the returned dict: cleaned_processes, kept_processes, errors
    term_log,           \* psutil calls issued: <<pid, call>>
    pid_reused,         \* pids of the snapshot that now belong to an unrelated process
    signalled_unrelated \* pids of unrelated processes that received terminate() or kill()

cleanupVars == <<cpc, enum_order, keep_newest, claude_processes, processes_to_keep,
                 processes_to_clean, cidx, result, term_log, pid_reused,
                 signalled_unrelated>>

VARIABLES
    \* ClaudeCLIAutomation: the call in progress
    entry,              \* public operation the caller invoked ("none" before the call)
    pc,                 \* position in the running operation
    system,             \* self.system: "windows", "darwin", "linux"
    file_exists,        \* os.path.exists(prompt_file)
    exc,                \* exception being propagated ("none" if none)
    raised,             \* an exception reached the caller of the public operation
    returned,           \* operations that have returned a report
    trace,              \* launches, clipboard writes and input injections, in order
    locals,             \* local variables of open_claude_cli_with_prompt
    text_landed,        \* environment: the pasted text is in the target input
    send_result,        \* report returned by open_claude_cli_with_prompt
    wf_timestamp_micro, \* workflow_results["timestamp"] has a microsecond part
    watcher,            \* number of live permission monitor threads
    monitor_result,     \* report of monitor_and_handle_claude_prompts
    workflow_results,   \* dict built by complete_automation_workflow
    wc_timestamp_micro, \* result["timestamp"] has a microsecond part
    wc_result           \* dict built by complete_workflow_with_cleanup

flowVars == <<entry, pc, system, file_exists, exc, raised, returned, trace, locals,
              text_landed, send_result, wf_timestamp_micro, watcher, monitor_result,
              workflow_results, wc_timestamp_micro, wc_result>>

VARIABLES
    \* WindowManager.cleanup_old_terminal_processes
    tpc,                \* position: "idle", "loop", "done"
    terminal_processes, \* result of find_terminal_processes
    t_max_terminals,    \* the max_terminals argument
    t_to_keep,          \* processes_to_keep
    t_to_clean,         \* processes_to_clean
    tidx,               \* index of the next process of the termination loop
    t_result,           \* the returned dict
    t_log               \* calls issued: <<pid, call>>

termVars == <<tpc, terminal_processes, t_max_terminals, t_to_keep, t_to_clean, tidx,
              t_result, t_log>>

VARIABLES
    \* KeyboardController.send_paste_command / send_enter
    kb_pc,              \* position: "idle", "loop", "done"
    kb_op,              \* the method called: "none", "paste", "enter"
    kb_max_attempts,    \* the max_attempts argument
    kb_attempt,         \* the loop variable attempt
    kb_log,             \* backends invoked, with their outcome, in order
    kb_ret              \* returned value: "none", "true", "false"

kbVars == <<kb_pc, kb_op, kb_max_attempts, kb_attempt, kb_log, kb_ret>>

VARIABLES
    \* ClipboardManager.copy_to_clipboard, then verify_clipboard_content
    clip_pc,            \* "idle", "backends", "returned", "again", "done"
    clip_text,          \* the text argument
    clipboard,          \* content of the system clipboard
    clip_idx,           \* index of the next backend of the chain
    clip_log,           \* backends invoked by the running call, with outcome
    clip_faulty,        \* some invoked backend did not write the clipboard
    clip_rets,          \* values returned by the copy_to_clipboard calls so far
    clip_verifs         \* results of verify_clipboard_content after each call

clipVars == <<clip_pc, clip_text, clipboard, clip_idx, clip_log, clip_faulty,
              clip_rets, clip_verifs>>

VARIABLES
    \* ScreenTextDetector.monitor_for_prompts
    mon_pc,             \* position: "idle", "loop", "done"
    duration_seconds,   \* the duration_seconds argument
    check_interval,     \* the check_interval argument
    mon_clock,          \* time.time() - start_time, counting the sleeps
    mon_tick,           \* number of polls completed
    last_screenshot,    \* "none" while last_screenshot is None, else "shot"
    mon_errors,         \* polls that ended in the except clause
    mon_fired_at,       \* poll at which detect_yes_proceed_options found a prompt (-1: none)
    mon_max_diff,       \* greatest difference of the lower region between two captures
    mon_report          \* the returned dict

monVars == <<mon_pc, duration_seconds, check_interval, mon_clock, mon_tick,
             last_screenshot, mon_errors, mon_fired_at, mon_max_diff, mon_report>>

VARIABLES
    \* ScreenTextDetector.detect_yes_proceed_options
    det_pc,             \* position: "idle", "chain", "done"
    ocr_available,      \* module flag ocr_available
    macos_libs_available, \* module flag macos_libs_available
    det_capture,        \* "none", "given", "captured", "raise"
    det_idx,            \* index of the next detector of the chain
    det_log,            \* detectors run, with what they reported, in order
    det_result          \* the returned dict

detVars == <<det_pc, ocr_available, macos_libs_available, det_capture, det_idx,
             det_log, det_result>>

VARIABLES
    \* ProcessLauncher.launch_claude_cli
    l_pc,               \* position: "idle", "loop", "returned"
    l_env,              \* what subprocess.Popen does for each terminal command
    l_idx,              \* index of the next terminal command
    l_log,              \* commands handed to subprocess.Popen, in order
    l_ret               \* "unset", "None", or the command of the returned process

launchVars == <<l_pc, l_env, l_idx, l_log, l_ret>>

VARIABLES
    \* WindowManager.activate_window_by_pid
    a_pc,               \* position: "idle", "methods", "returned"
    a_env,              \* what each activation method does when it is run
    a_idx,              \* index of the next activation method
    a_log,              \* activation methods run, in order
    a_ret               \* "unset", "raised", or the returned boolean

actVars == <<a_pc, a_env, a_idx, a_log, a_ret>>

VARIABLES
    \* MacOSPermissionHandler.auto_click_allow_button
    k_pc,               \* position: "idle", "methods", "returned"
    k_env,              \* what each click method meets when it is run
    k_idx,              \* index of the next click method
    k_log,              \* click methods run, in order
    k_positions,        \* button positions visited by the coordinate estimate
    k_ret               \* "unset", or the returned boolean

clickVars == <<k_pc, k_env, k_idx, k_log, k_positions, k_ret>>

VARIABLES
    \* ClaudeCLIAutomation._activate_claude_cli_window
    aw_pc,              \* position: "idle", "round", "candidates", "returned"
    aw_enum,            \* matching processes in the order process_iter yields them
    aw_can,             \* pids for which activate_window_by_pid returns True
    aw_max_attempts,    \* the max_attempts argument
    aw_attempt,         \* the loop variable attempt
    aw_candidates,      \* windows of the running round still to be tried
    aw_log,             \* pids handed to activate_window_by_pid, in order
    aw_ret              \* "unset", or the returned boolean

awVars == <<aw_pc, aw_enum, aw_can, aw_max_attempts, aw_attempt, aw_candidates,
            aw_log, aw_ret>>

VARIABLES
    \* LLMClient.invoke (backend/clients/llm_client.py)
    llm_pc,             \* position: "idle", "primary", "fallback", "done"
    llm_primary,        \* what primary_llm.ainvoke does: Responded or the error raised
    llm_fallback,       \* what fallback_llm.ainvoke did: NotCalled, Responded, an error
    llm_calls,          \* the models called, in order
    llm_ret             \* [kind |-> "unset"], a response, or the error raised

llmVars == <<llm_pc, llm_primary, llm_fallback, llm_calls, llm_ret>>

VARIABLES
    \* MacOSPermissionHandler.monitor_and_handle_permission_dialogs
    pm_pc,              \* position: "idle", "scan", "dialogs", "done"
    pm_duration,        \* the duration_seconds argument
    pm_clock,           \* time.time() - start_time
    pm_pending,         \* dialogs of the current scan still to be handled
    pm_clicks,          \* calls of auto_click_allow_button
    pm_result           \* the returned dict

pmVars == <<pm_pc, pm_duration, pm_clock, pm_pending, pm_clicks, pm_result>>

compVars == <<termVars, kbVars, clipVars, monVars, detVars, launchVars, actVars, clickVars,
             awVars,
             llmVars,
             pmVars>>

vars == <<cleanupVars, flowVars, compVars>>

(* ---- helpers ---- *)
Range(s) == {s[i] : i \in 1..Len(s)}

Min(a, b) == IF a <= b THEN a ELSE b

(***************************************************************************)
(* Process snapshots.  The code only compares creation times, so they are  *)
(* drawn from 1..MaxProcs and use an initial segment 1..m of it (every     *)
(* pattern of ties and strict orderings of up to MaxProcs processes).      *)
(***************************************************************************)
Pids == 1..MaxProcs
Times == 1..MaxProcs
ProcInfo == [pid : Pids, create_time : Times]

\* every order in which process_iter can yield n matching processes (pids 1..n)
EnumOrders ==
    UNION {{s \in [1..n -> ProcInfo] :
                /\ \A i, j \in 1..n : i # j => s[i].pid # s[j].pid
                /\ \A i \in 1..n : s[i].pid <= n
                /\ \A i \in 1..n : s[i].create_time = 1
                       \/ \E j \in 1..n : s[j].create_time = s[i].create_time - 1}
           : n \in 0..MaxProcs}

(***************************************************************************)
(* list.sort(key=lambda x: x['create_time'], reverse=True): a stable sort, *)
(* newest first; entries with equal create_time keep their relative order. *)
(***************************************************************************)
InsertAscending(sorted, x) ==
    LET before == {i \in 1..Len(sorted) : sorted[i].create_time <= x.create_time}
        n == Cardinality(before)
    IN SubSeq(sorted, 1, n) \o <<x>> \o SubSeq(sorted, n + 1, Len(sorted))

InsertDescending(sorted, x) ==
    LET before == {i \in 1..Len(sorted) : sorted[i].create_time >= x.create_time}
        n == Cardinality(before)
    IN SubSeq(sorted, 1, n) \o <<x>> \o SubSeq(sorted, n + 1, Len(sorted))

RECURSIVE SortFrom(_, _)
SortFrom(s, acc) ==
    IF s = <<>> THEN acc ELSE SortFrom(Tail(s), InsertDescending(acc, Head(s)))

\* WindowManager.find_claude_cli_windows: the matching processes, newest first
find_claude_cli_windows(order) == SortFrom(order, <<>>)

(***************************************************************************)
(* Outcomes of terminating one process (lines 698-726).                    *)
(***************************************************************************)
TermOutcomes ==
    {"exited",            \* terminate(), wait(5) returns
     "killed",            \* wait(5) times out, kill(), wait(3) returns
     "kill_timeout",      \* wait(5) times out, kill(), wait(3) times out
     "no_such_process",   \* psutil.Process(pid) raises NoSuchProcess
     "access_denied"}     \* terminate() raises AccessDenied

EmptyResult == [cleaned_processes |-> <<>>, kept_processes |-> <<>>, errors |-> <<>>]

\* mutant: the process is killed at once, without terminate() and the wait
TermCallsKillFirst(pid, outcome) ==
    CASE outcome = "no_such_process" -> <<<<pid, "lookup">>>>
      [] OTHER -> <<<<pid, "lookup">>, <<pid, "kill">>, <<pid, "wait_ok">>>>

\* the psutil calls issued on the process for one outcome, in order:
\* "lookup" is psutil.Process(pid), "wait_ok" a wait() that returned,
\* "wait_timeout" a wait() that raised TimeoutExpired
TermCalls(pid, outcome) ==
    CASE outcome = "exited" ->
             <<<<pid, "lookup">>, <<pid, "terminate">>, <<pid, "wait_ok">>>>
      [] outcome = "killed" ->
             <<<<pid, "lookup">>, <<pid, "terminate">>, <<pid, "wait_timeout">>,
               <<pid, "kill">>, <<pid, "wait_ok">>>>
      [] outcome = "kill_timeout" ->
             <<<<pid, "lookup">>, <<pid, "terminate">>, <<pid, "wait_timeout">>,
               <<pid, "kill">>, <<pid, "wait_timeout">>>>
      [] outcome = "no_such_process" -> <<<<pid, "lookup">>>>
      [] outcome = "access_denied" -> <<<<pid, "lookup">>, <<pid, "terminate">>>>

\* mutant: a failed termination is dropped instead of recorded in errors
RecordTerminationDropErrors(res, proc_info, outcome) ==
    IF outcome \in {"exited", "killed"}
    THEN [res EXCEPT !.cleaned_processes = Append(@, proc_info)]
    ELSE res

\* body of the termination loop: where the process is recorded
RecordTermination(res, proc_info, outcome) ==
    IF outcome \in {"exited", "killed"}
    THEN [res EXCEPT !.cleaned_processes = Append(@, proc_info)]
    ELSE [res EXCEPT !.errors = Append(@, [pid |-> proc_info.pid, error |-> outcome])]

\* mutant: a failed termination ends the batch
after_termination_abort(outcome) ==
    IF outcome \in {"exited", "killed", "not_running"} THEN "next_process" ELSE "abort"

\* the except clauses sit inside the for loop (lines 721-726, 809-814): whatever
\* the outcome, the loop goes on with the next process
after_termination(outcome) == "next_process"

\* outcomes in which terminate() or kill() reached the process
Signalled == {"exited", "killed", "kill_timeout"}

\* mutant: the process object is used only if the process is still the
\* enumerated one
lookup_process_checked(proc_info, reused) ==
    IF proc_info.pid \in reused THEN "gone" ELSE "enumerated"

\* line 703: process = psutil.Process(pid) is built from the pid alone, so it
\* stands for whatever process holds that pid now; create_time of the
\* snapshot is not compared
lookup_process(proc_info, reused) ==
    IF proc_info.pid \in reused THEN "unrelated" ELSE "enumerated"

\* outcomes the operating system allows for the process the lookup gave
OutcomesFor(process) ==
    CASE process = "enumerated" -> TermOutcomes
      [] process = "unrelated" -> TermOutcomes \ {"no_such_process"}
      [] process = "gone" -> {"no_such_process"}

(* ---- actions of cleanup_old_claude_processes ---- *)

\* lines 676-696: enumerate, early return or split into keep / clean
CleanupStart ==
    /\ cpc = "idle"
    /\ \E order \in EnumOrders, k \in 0..MaxKeep :
        LET procs == find_claude_cli_windows(order) IN
        /\ enum_order' = order
        /\ keep_newest' = k
        /\ claude_processes' = procs
        /\ IF Len(procs) <= k
           THEN /\ result' = [EmptyResult EXCEPT !.kept_processes = procs]
                /\ cpc' = "done"
                /\ UNCHANGED <<processes_to_keep, processes_to_clean>>
           ELSE /\ processes_to_keep' = SubSeq(procs, 1, k)
                /\ processes_to_clean' = SubSeq(procs, k + 1, Len(procs))
                /\ result' = EmptyResult
                /\ cpc' = "loop"
    /\ UNCHANGED <<cidx, term_log, pid_reused, signalled_unrelated>>
    /\ UNCHANGED <<flowVars, compVars>>

\* lines 698-726: one iteration of the termination loop
CleanupTerminate ==
    /\ cpc = "loop"
    /\ cidx <= Len(processes_to_clean)
    /\ LET proc_info == processes_to_clean[cidx]
           process == lookup_process(proc_info, pid_reused)
       IN \E outcome \in OutcomesFor(process) :
           /\ term_log' = term_log \o TermCalls(proc_info.pid, outcome)
           /\ result' = RecordTermination(result, proc_info, outcome)
           /\ cpc' = IF after_termination(outcome) = "next_process" THEN cpc ELSE "done"
           /\ signalled_unrelated' =
                  IF process = "unrelated" /\ outcome \in Signalled
                  THEN signalled_unrelated \cup {proc_info.pid}
                  ELSE signalled_unrelated
    /\ cidx' = cidx + 1
    /\ UNCHANGED <<enum_order, keep_newest, claude_processes,
                   processes_to_keep, processes_to_clean, pid_reused>>
    /\ UNCHANGED <<flowVars, compVars>>

\* lines 728-736: the loop is over, record the kept processes and return
CleanupFinish ==
    /\ cpc = "loop"
    /\ cidx > Len(processes_to_clean)
    /\ result' = [result EXCEPT !.kept_processes = processes_to_keep]
    /\ cpc' = "done"
    /\ UNCHANGED <<enum_order, keep_newest, claude_processes, processes_to_keep,
                   processes_to_clean, cidx, term_log, pid_reused, signalled_unrelated>>
    /\ UNCHANGED <<flowVars, compVars>>

\* between the enumeration (line 685) and psutil.Process(pid) (line 703) a
\* process selected for cleaning exits and the operating system gives its pid
\* to a new, unrelated process
PidReuse ==
    /\ cpc = "loop"
    /\ \E i \in cidx..Len(processes_to_clean) :
        /\ processes_to_clean[i].pid \notin pid_reused
        /\ pid_reused' = pid_reused \cup {processes_to_clean[i].pid}
    /\ UNCHANGED <<cpc, enum_order, keep_newest, claude_processes, processes_to_keep,
                   processes_to_clean, cidx, result, term_log, signalled_unrelated>>
    /\ UNCHANGED <<flowVars, compVars>>

CleanupIdle ==
    /\ cpc = "idle"
    /\ enum_order = <<>>
    /\ keep_newest = 0
    /\ claude_processes = <<>>
    /\ processes_to_keep = <<>>
    /\ processes_to_clean = <<>>
    /\ cidx = 1
    /\ result = EmptyResult
    /\ term_log = <<>>
    /\ pid_reused = {}
    /\ signalled_unrelated = {}

(***************************************************************************)
(* cleanup_old_claude_processes as one call (lines 676-736), used where    *)
(* the workflows call it: outs[i] is the outcome of terminating the i-th   *)
(* process selected for cleaning.                                          *)
(***************************************************************************)
RECURSIVE TerminationLoop(_, _, _, _)
TerminationLoop(res, procs, outs, i) ==
    IF i > Len(procs) THEN res
    ELSE TerminationLoop(RecordTermination(res, procs[i], outs[i]), procs, outs, i + 1)

cleanup_old_claude_processes(order, k, outs) ==
    LET procs == find_claude_cli_windows(order) IN
    IF Len(procs) <= k
    THEN [EmptyResult EXCEPT !.kept_processes = procs]
    ELSE [TerminationLoop(EmptyResult, SubSeq(procs, k + 1, Len(procs)), outs, 1)
              EXCEPT !.kept_processes = SubSeq(procs, 1, k)]

(***************************************************************************)
(* cleanup_old_terminal_processes as one call (lines 738-824).  Terminals  *)
(* are ranked by process_score; a terminal that is no longer running after *)
(* the close request is recorded as cleaned without terminate().           *)
(***************************************************************************)
TerminalOutcomes == TermOutcomes \cup {"not_running"}

process_score(proc) ==
    proc.create_time + proc.cpu_percent * 100 + Min(proc.memory_mb, 100)

InsertByScore(sorted, x) ==
    LET before == {i \in 1..Len(sorted) : process_score(sorted[i]) >= process_score(x)}
        n == Cardinality(before)
    IN SubSeq(sorted, 1, n) \o <<x>> \o SubSeq(sorted, n + 1, Len(sorted))

RECURSIVE SortByScore(_, _)
SortByScore(s, acc) ==
    IF s = <<>> THEN acc ELSE SortByScore(Tail(s), InsertByScore(acc, Head(s)))

RecordTerminalTermination(res, proc_info, outcome) ==
    IF outcome \in {"not_running", "exited", "killed"}
    THEN [res EXCEPT !.cleaned_processes = Append(@, proc_info)]
    ELSE [res EXCEPT !.errors = Append(@, [pid |-> proc_info.pid, error |-> outcome])]

RECURSIVE TerminalLoop(_, _, _, _)
TerminalLoop(res, procs, outs, i) ==
    IF i > Len(procs) THEN res
    ELSE TerminalLoop(RecordTerminalTermination(res, procs[i], outs[i]), procs, outs, i + 1)

cleanup_old_terminal_processes(procs, k, outs) ==
    IF Len(procs) <= k
    THEN [EmptyResult EXCEPT !.kept_processes = procs]
    ELSE LET ranked == SortByScore(procs, <<>>) IN
         [TerminalLoop(EmptyResult, SubSeq(ranked, k + 1, Len(ranked)), outs, 1)
              EXCEPT !.kept_processes = SubSeq(ranked, 1, k)]

(* ---- actions of cleanup_old_terminal_processes ---- *)

\* terminal processes as find_terminal_processes reports them
TerminalInfo == [pid : Pids, create_time : 1..2, cpu_percent : 0..1, memory_mb : {0}]

TerminalTables ==
    {t \in UNION {[1..n -> TerminalInfo] : n \in 0..MaxProcs} :
        \A i \in 1..Len(t) : t[i].pid = i}

\* the calls issued on one terminal for one outcome, in order (lines 776-804);
\* on macOS a close-window keystroke is sent to the process first
TerminalCalls(pid, outcome, sys) ==
    LET close == IF sys = "darwin" THEN <<<<pid, "close_window">>>> ELSE <<>>
        probe == <<<<pid, "lookup">>>> \o close \o <<<<pid, "is_running">>>>
    IN CASE outcome = "no_such_process" -> <<<<pid, "lookup">>>>
         [] outcome = "not_running" -> probe
         [] outcome = "exited" -> probe \o <<<<pid, "terminate">>, <<pid, "wait_ok">>>>
         [] outcome = "killed" ->
                probe \o <<<<pid, "terminate">>, <<pid, "wait_timeout">>,
                           <<pid, "kill">>, <<pid, "wait_ok">>>>
         [] outcome = "kill_timeout" ->
                probe \o <<<<pid, "terminate">>, <<pid, "wait_timeout">>,
                           <<pid, "kill">>, <<pid, "wait_timeout">>>>
         [] outcome = "access_denied" -> probe \o <<<<pid, "terminate">>>>

\* lines 738-769: enumerate, early return or rank and split
TerminalStart ==
    /\ tpc = "idle"
    /\ \E procs \in TerminalTables, k \in 0..MaxKeep :
        /\ terminal_processes' = procs
        /\ t_max_terminals' = k
        /\ IF Len(procs) <= k
           THEN /\ t_result' = [EmptyResult EXCEPT !.kept_processes = procs]
                /\ tpc' = "done"
                /\ UNCHANGED <<t_to_keep, t_to_clean>>
           ELSE LET ranked == SortByScore(procs, <<>>) IN
                /\ t_to_keep' = SubSeq(ranked, 1, k)
                /\ t_to_clean' = SubSeq(ranked, k + 1, Len(ranked))
                /\ t_result' = EmptyResult
                /\ tpc' = "loop"
    /\ UNCHANGED <<tidx, t_log>>
    /\ UNCHANGED <<cleanupVars, flowVars, kbVars, clipVars, monVars, detVars,
                   launchVars, actVars, clickVars, awVars, llmVars, pmVars>>

\* lines 771-814: one iteration of the termination loop
TerminalTerminate ==
    /\ tpc = "loop"
    /\ tidx <= Len(t_to_clean)
    /\ \E outcome \in TerminalOutcomes :
        LET proc_info == t_to_clean[tidx] IN
        /\ t_log' = t_log \o TerminalCalls(proc_info.pid, outcome, system)
        /\ t_result' = RecordTerminalTermination(t_result, proc_info, outcome)
        /\ tpc' = IF after_termination(outcome) = "next_process" THEN tpc ELSE "done"
    /\ tidx' = tidx + 1
    /\ UNCHANGED <<terminal_processes, t_max_terminals, t_to_keep, t_to_clean>>
    /\ UNCHANGED <<cleanupVars, flowVars, kbVars, clipVars, monVars, detVars,
                   launchVars, actVars, clickVars, awVars, llmVars, pmVars>>

\* lines 816-824: the loop is over, record the kept processes and return
TerminalFinish ==
    /\ tpc = "loop"
    /\ tidx > Len(t_to_clean)
    /\ t_result' = [t_result EXCEPT !.kept_processes = t_to_keep]
    /\ tpc' = "done"
    /\ UNCHANGED <<terminal_processes, t_max_terminals, t_to_keep, t_to_clean, tidx, t_log>>
    /\ UNCHANGED <<cleanupVars, flowVars, kbVars, clipVars, monVars, detVars,
                   launchVars, actVars, clickVars, awVars, llmVars, pmVars>>

TerminalIdle ==
    /\ tpc = "idle"
    /\ terminal_processes = <<>>
    /\ t_max_terminals = 0
    /\ t_to_keep = <<>>
    /\ t_to_clean = <<>>
    /\ tidx = 1
    /\ t_result = EmptyResult
    /\ t_log = <<>>

(***************************************************************************)
(* Process tables the workflows run their cleanup steps on: n processes    *)
(* enumerated in pid order, created in that order.  The workflows store    *)
(* the cleanup reports and read only cleaned_processes (its truth value at *)
(* line 2269, its length at lines 2829-2830), so the workflow state keeps  *)
(* of a report whether anything was cleaned.                               *)
(***************************************************************************)
ClaudeSnapshot(n) == [i \in 1..n |-> [pid |-> i, create_time |-> i]]

TerminalSnapshot(n) ==
    [i \in 1..n |-> [pid |-> i, create_time |-> i, cpu_percent |-> 0, memory_mb |-> 0]]

ReportSummary(res) == [cleaned_any |-> res.cleaned_processes # <<>>]

ClaudeCleanupReports(k) ==
    {ReportSummary(cleanup_old_claude_processes(ClaudeSnapshot(n), k, outs)) :
        n \in 0..MaxProcs, outs \in [1..MaxProcs -> TermOutcomes]}

TerminalCleanupReports(k) ==
    {ReportSummary(cleanup_old_terminal_processes(TerminalSnapshot(n), k, outs)) :
        n \in 0..MaxProcs, outs \in [1..MaxProcs -> TerminalOutcomes]}

(***************************************************************************)
(* open_claude_cli_with_prompt (lines 1921-2136)                           *)
(***************************************************************************)
Unbound == [bound |-> FALSE, value |-> <<>>]
Bound(v) == [bound |-> TRUE, value |-> v]

InitLocals ==
    [activation_success |-> FALSE,
     copy_success |-> FALSE,
     clipboard_verified |-> FALSE,
     focus_ready |-> FALSE,
     paste_success |-> FALSE,
     paste_methods_tried |-> <<>>,
     paste_verified |-> FALSE,
     enter_success |-> FALSE,
     enter_methods_tried |-> Unbound]

NoReport == [status |-> "unset"]

\* where the call continues after open_claude_cli_with_prompt returns
AfterOpen == IF entry = "open" THEN "returned" ELSE "w_after_send"

\* mutant: the missing file is not noticed
file_check_skipped(exists) == "o_launch"

\* lines 1932-1933: a missing prompt file raises FileNotFoundError
file_check(exists) == IF exists THEN "o_launch" ELSE "o_except"

\* mutant: a failed launch is ignored
after_launch_continue(process) == "o_activate"

\* lines 1943-1945: no process raises
after_launch(process) == IF process THEN "o_activate" ELSE "o_except"

\* mutant: a failed clipboard copy is only logged
after_copy_continue(copied) == "o_verify_clip"

\* lines 1961-1962: a failed clipboard copy raises
after_copy(copied) == IF copied THEN "o_verify_clip" ELSE "o_except"

\* lines 2039-2048: paste_verified is set from paste_success alone; the probe
\* result (landed) is not consulted
paste_verification(pasted, landed) == pasted

\* mutant: Enter is sent whatever the paste step reported
submit_branch_always_send(pasted, verified) == "send_enter"

\* lines 2051, 2065, 2071: the three branches of the submit step
submit_branch(pasted, verified) ==
    IF pasted /\ verified THEN "send_enter"
    ELSE IF pasted /\ ~verified THEN "safe_skip"
    ELSE "skip"

\* lines 2114-2118
next_manual_steps(l) ==
    (IF ~l.activation_success THEN <<"click_window">> ELSE <<>>)
    \o (IF ~l.paste_success THEN <<"paste">> ELSE <<>>)
    \o (IF ~l.enter_success THEN <<"press_enter">> ELSE <<>>)

\* lines 2079-2119: the report of a completed run
open_report(l) ==
    [status |-> "success",
     window_activation_success |-> l.activation_success,
     paste_success |-> l.paste_success,
     paste_verified |-> l.paste_verified,
     enter_success |-> l.enter_success,
     focus_ready |-> l.focus_ready,
     methods_used |-> [paste_methods |-> l.paste_methods_tried,
                       enter_methods |-> l.enter_methods_tried.value],
     next_manual_steps |-> next_manual_steps(l)]

\* lines 2123-2136: the report built by the except clause
open_error_report(e) ==
    [status |-> "error",
     message |-> e,
     fallback_instructions |-> <<"manual_header", "click_window", "paste", "press_enter">>]

\* mutant: the except clause lets the exception through
open_except_reraise(e) == [caught |-> FALSE, report |-> NoReport]

\* lines 2121-2136: except Exception catches and returns the error report
open_except(e) == [caught |-> TRUE, report |-> open_error_report(e)]

PasteTags == {"right_click_paste", "send_paste_command", "pynput_paste"}

\* the caller invokes open_claude_cli_with_prompt(prompt_file)
StartOpen ==
    /\ entry = "none"
    /\ entry' = "open"
    /\ \E exists \in BOOLEAN : file_exists' = exists
    /\ pc' = "o_check_file"
    /\ UNCHANGED <<system, exc, raised, returned, trace, locals, text_landed, send_result,
                   wf_timestamp_micro, watcher, monitor_result, workflow_results,
                   wc_timestamp_micro, wc_result>>
    /\ UNCHANGED <<cleanupVars, compVars>>

\* lines 1931-1937
OpenCheckFile ==
    /\ pc = "o_check_file"
    /\ pc' = file_check(file_exists)
    /\ exc' = IF pc' = "o_except" THEN "file_not_found" ELSE exc
    /\ UNCHANGED <<entry, system, file_exists, raised, returned, trace, locals, text_landed,
                   send_result, wf_timestamp_micro, watcher, monitor_result,
                   workflow_results, wc_timestamp_micro, wc_result>>
    /\ UNCHANGED <<cleanupVars, compVars>>

\* lines 1941-1949
OpenLaunch ==
    /\ pc = "o_launch"
    /\ \E process \in BOOLEAN :
        /\ trace' = IF process THEN Append(trace, "launch") ELSE trace
        /\ pc' = after_launch(process)
        /\ exc' = IF pc' = "o_except" THEN "launch_failed" ELSE exc
    /\ UNCHANGED <<entry, system, file_exists, raised, returned, locals, text_landed,
                   send_result, wf_timestamp_micro, watcher, monitor_result,
                   workflow_results, wc_timestamp_micro, wc_result>>
    /\ UNCHANGED <<cleanupVars, compVars>>

\* lines 1951-1957
OpenActivate ==
    /\ pc = "o_activate"
    /\ \E ok \in BOOLEAN : locals' = [locals EXCEPT !.activation_success = ok]
    /\ trace' = Append(trace, "activate_window")
    /\ pc' = "o_copy"
    /\ UNCHANGED <<entry, system, file_exists, exc, raised, returned, text_landed,
                   send_result, wf_timestamp_micro, watcher, monitor_result,
                   workflow_results, wc_timestamp_micro, wc_result>>
    /\ UNCHANGED <<cleanupVars, compVars>>

\* lines 1959-1962
OpenCopy ==
    /\ pc = "o_copy"
    /\ \E copied \in BOOLEAN :
        /\ locals' = [locals EXCEPT !.copy_success = copied]
        /\ pc' = after_copy(copied)
        /\ exc' = IF pc' = "o_except" THEN "copy_failed" ELSE exc
    /\ trace' = Append(trace, "clipboard_copy")
    /\ UNCHANGED <<entry, system, file_exists, raised, returned, text_landed,
                   send_result, wf_timestamp_micro, watcher, monitor_result,
                   workflow_results, wc_timestamp_micro, wc_result>>
    /\ UNCHANGED <<cleanupVars, compVars>>

\* lines 1964-1972: a failed verification is logged, the run continues
OpenVerifyClipboard ==
    /\ pc = "o_verify_clip"
    /\ \E ok \in BOOLEAN : locals' = [locals EXCEPT !.clipboard_verified = ok]
    /\ pc' = "o_focus"
    /\ UNCHANGED <<entry, system, file_exists, exc, raised, returned, trace, text_landed,
                   send_result, wf_timestamp_micro, watcher, monitor_result,
                   workflow_results, wc_timestamp_micro, wc_result>>
    /\ UNCHANGED <<cleanupVars, compVars>>

\* lines 1974-1985: _ensure_input_focus clicks and types a probe character
OpenFocus ==
    /\ pc = "o_focus"
    /\ \E ok \in BOOLEAN : locals' = [locals EXCEPT !.focus_ready = ok]
    /\ trace' = Append(trace, "focus_probe")
    /\ pc' = "o_paste_right_click"
    /\ UNCHANGED <<entry, system, file_exists, exc, raised, returned, text_landed,
                   send_result, wf_timestamp_micro, watcher, monitor_result,
                   workflow_results, wc_timestamp_micro, wc_result>>
    /\ UNCHANGED <<cleanupVars, compVars>>

\* lines 1987-2003: method 1, Windows only
OpenPasteRightClick ==
    /\ pc = "o_paste_right_click"
    /\ IF system = "windows"
       THEN /\ \E ok \in BOOLEAN :
                 locals' = IF ok
                           THEN [locals EXCEPT !.paste_success = TRUE,
                                               !.paste_methods_tried =
                                                   Append(@, "right_click_paste")]
                           ELSE locals
            /\ trace' = Append(trace, "right_click_paste")
       ELSE UNCHANGED <<locals, trace>>
    /\ pc' = "o_paste_standard"
    /\ UNCHANGED <<entry, system, file_exists, exc, raised, returned, text_landed,
                   send_result, wf_timestamp_micro, watcher, monitor_result,
                   workflow_results, wc_timestamp_micro, wc_result>>
    /\ UNCHANGED <<cleanupVars, compVars>>

\* lines 2005-2015: method 2, keyboard_controller.send_paste_command
OpenPasteStandard ==
    /\ pc = "o_paste_standard"
    /\ IF ~locals.paste_success
       THEN /\ \E ok \in BOOLEAN :
                 locals' = IF ok
                           THEN [locals EXCEPT !.paste_success = TRUE,
                                               !.paste_methods_tried =
                                                   Append(@, "standard_paste")]
                           ELSE locals
            /\ trace' = Append(trace, "send_paste_command")
       ELSE UNCHANGED <<locals, trace>>
    /\ pc' = "o_paste_pynput"
    /\ UNCHANGED <<entry, system, file_exists, exc, raised, returned, text_landed,
                   send_result, wf_timestamp_micro, watcher, monitor_result,
                   workflow_results, wc_timestamp_micro, wc_result>>
    /\ UNCHANGED <<cleanupVars, compVars>>

\* lines 2017-2036: method 3, pynput
OpenPastePynput ==
    /\ pc = "o_paste_pynput"
    /\ IF ~locals.paste_success
       THEN /\ \E ok \in BOOLEAN :
                 locals' = IF ok
                           THEN [locals EXCEPT !.paste_success = TRUE,
                                               !.paste_methods_tried = Append(@, "pynput")]
                           ELSE locals
            /\ trace' = Append(trace, "pynput_paste")
       ELSE UNCHANGED <<locals, trace>>
    /\ pc' = "o_paste_done"
    /\ UNCHANGED <<entry, system, file_exists, exc, raised, returned, text_landed,
                   send_result, wf_timestamp_micro, watcher, monitor_result,
                   workflow_results, wc_timestamp_micro, wc_result>>
    /\ UNCHANGED <<cleanupVars, compVars>>

\* lines 2038-2048: the environment decides whether the text landed
OpenPasteDone ==
    /\ pc = "o_paste_done"
    /\ \E landed \in BOOLEAN :
        /\ landed => locals.paste_success
        /\ text_landed' = landed
        /\ locals' = [locals EXCEPT
                         !.paste_verified = paste_verification(locals.paste_success, landed)]
    /\ pc' = "o_submit"
    /\ UNCHANGED <<entry, system, file_exists, exc, raised, returned, trace,
                   send_result, wf_timestamp_micro, watcher, monitor_result,
                   workflow_results, wc_timestamp_micro, wc_result>>
    /\ UNCHANGED <<cleanupVars, compVars>>

\* lines 2050-2075
OpenSubmit ==
    /\ pc = "o_submit"
    /\ LET branch == submit_branch(locals.paste_success, locals.paste_verified) IN
       IF branch = "send_enter"
       THEN /\ \E ok \in BOOLEAN : locals' = [locals EXCEPT !.enter_success = ok]
            /\ trace' = Append(trace, "send_enter")
       ELSE /\ locals' = [locals EXCEPT !.enter_success = FALSE,
                                        !.enter_methods_tried = Bound(<<>>)]
            /\ UNCHANGED trace
    /\ pc' = "o_return"
    /\ UNCHANGED <<entry, system, file_exists, exc, raised, returned, text_landed,
                   send_result, wf_timestamp_micro, watcher, monitor_result,
                   workflow_results, wc_timestamp_micro, wc_result>>
    /\ UNCHANGED <<cleanupVars, compVars>>

\* lines 2077-2119: building the report reads enter_methods_tried
OpenReturn ==
    /\ pc = "o_return"
    /\ IF locals.enter_methods_tried.bound
       THEN /\ send_result' = open_report(locals)
            /\ returned' = returned \cup {"open"}
            /\ pc' = AfterOpen
            /\ UNCHANGED exc
       ELSE /\ exc' = "unbound_local_enter_methods_tried"
            /\ pc' = "o_except"
            /\ UNCHANGED <<send_result, returned>>
    /\ UNCHANGED <<entry, system, file_exists, raised, trace, locals, text_landed,
                   wf_timestamp_micro, watcher, monitor_result,
                   workflow_results, wc_timestamp_micro, wc_result>>
    /\ UNCHANGED <<cleanupVars, compVars>>

\* lines 2121-2136
OpenExcept ==
    /\ pc = "o_except"
    /\ LET h == open_except(exc) IN
       IF h.caught
       THEN /\ send_result' = h.report
            /\ returned' = returned \cup {"open"}
            /\ exc' = "none"
            /\ pc' = AfterOpen
            /\ UNCHANGED raised
       ELSE /\ pc' = IF entry = "open" THEN "returned" ELSE "w_except"
            /\ raised' = (entry = "open")
            /\ UNCHANGED <<send_result, returned, exc>>
    /\ UNCHANGED <<entry, system, file_exists, trace, locals, text_landed,
                   wf_timestamp_micro, watcher, monitor_result,
                   workflow_results, wc_timestamp_micro, wc_result>>
    /\ UNCHANGED <<cleanupVars, compVars>>

(***************************************************************************)
(* monitor_and_handle_claude_prompts (lines 2138-2240) as one call.        *)
(*   mon       - monitor_for_prompts: "found", "timeout", or it raises     *)
(*   suggested - suggested_action of the detection result                  *)
(*   activated - result of the window activation                           *)
(*   entered   - result of keyboard_controller.send_enter                  *)
(* keys lists the activation and Enter injections the call issued.         *)
(***************************************************************************)
MonitorOutcomes == {"found", "timeout", "raise"}
SuggestedActions == {"press_enter", "check_and_enter", "none"}

\* mutant: Enter is sent whether or not the window could be activated
monitor_and_handle_always_enter(mon, suggested, activated, entered) ==
    IF mon = "raise" THEN [status |-> "error", keys |-> <<>>]
    ELSE IF mon = "found"
    THEN IF suggested \in {"press_enter", "check_and_enter"}
         THEN [status |-> IF entered THEN "handled" ELSE "partial_success",
               keys |-> <<"monitor_activate", "monitor_send_enter">>]
         ELSE [status |-> "detected_no_action", keys |-> <<>>]
    ELSE [status |-> "no_prompts_detected", keys |-> <<>>]

monitor_and_handle_claude_prompts(mon, suggested, activated, entered) ==
    IF mon = "raise" THEN [status |-> "error", keys |-> <<>>]
    ELSE IF mon = "found"
    THEN IF suggested \in {"press_enter", "check_and_enter"}
         THEN IF activated
              THEN IF entered
                   THEN [status |-> "handled",
                         keys |-> <<"monitor_activate", "monitor_send_enter">>]
                   ELSE [status |-> "partial_success",
                         keys |-> <<"monitor_activate", "monitor_send_enter">>]
              ELSE [status |-> "detection_only", keys |-> <<"monitor_activate">>]
         ELSE [status |-> "detected_no_action", keys |-> <<>>]
    ELSE [status |-> "no_prompts_detected", keys |-> <<>>]

(***************************************************************************)
(* complete_automation_workflow (lines 2242-2331)                          *)
(***************************************************************************)
EmptyDict == [x \in {} |-> x]

\* lines 2255-2259
workflow_results_init == [status |-> "started", message |-> "none", steps |-> EmptyDict]

\* where the call continues after complete_automation_workflow returns
AfterWorkflow == IF entry = "workflow" THEN "returned" ELSE "c_after_automation"

\* mutant: the status of the monitoring step is passed through
workflow_final_status_passthrough(monitor_status) == monitor_status

\* lines 2304-2316
workflow_final_status(monitor_status) ==
    IF monitor_status \in {"handled", "partial_success"} THEN "success"
    ELSE IF monitor_status = "detected_no_action" THEN "success_no_action_needed"
    ELSE IF monitor_status = "no_prompts_detected" THEN "success_no_prompts"
    ELSE "partial_success"

\* lines 2327-2331
workflow_except(res, e) ==
    [caught |-> TRUE, report |-> [res EXCEPT !.status = "error", !.message = e]]

\* the caller invokes complete_automation_workflow(prompt_file)
StartWorkflow ==
    /\ entry = "none"
    /\ entry' = "workflow"
    /\ \E exists \in BOOLEAN : file_exists' = exists
    /\ \E micro \in BOOLEAN : wf_timestamp_micro' = micro
    /\ workflow_results' = workflow_results_init
    /\ pc' = "w_cleanup"
    /\ UNCHANGED <<system, exc, raised, returned, trace, locals, text_landed, send_result,
                   watcher, monitor_result, wc_timestamp_micro, wc_result>>
    /\ UNCHANGED <<cleanupVars, compVars>>

\* lines 2262-2270: cleanup_old_claude_processes(keep_newest=1)
WfCleanup ==
    /\ pc = "w_cleanup"
    /\ \E cleanup_result \in ClaudeCleanupReports(1) :
        workflow_results' =
            [workflow_results EXCEPT !.steps = ("process_cleanup" :> cleanup_result) @@ @]
    /\ pc' = "w_permission"
    /\ UNCHANGED <<entry, system, file_exists, exc, raised, returned, trace, locals,
                   text_landed, send_result, wf_timestamp_micro, watcher, monitor_result,
                   wc_timestamp_micro, wc_result>>
    /\ UNCHANGED <<cleanupVars, compVars>>

\* lines 2272-2283: on macOS the permission monitor thread is started
WfPermissionMonitor ==
    /\ pc = "w_permission"
    /\ IF system = "darwin"
       THEN /\ watcher' = watcher + 1
            /\ workflow_results' =
                   [workflow_results EXCEPT
                       !.steps = ("permission_monitor" :> [status |-> "started"]) @@ @]
       ELSE UNCHANGED <<watcher, workflow_results>>
    /\ pc' = "w_send"
    /\ UNCHANGED <<entry, system, file_exists, exc, raised, returned, trace, locals,
                   text_landed, send_result, wf_timestamp_micro, monitor_result,
                   wc_timestamp_micro, wc_result>>
    /\ UNCHANGED <<cleanupVars, compVars>>

\* line 2287: call open_claude_cli_with_prompt(prompt_file)
WfSend ==
    /\ pc = "w_send"
    /\ locals' = InitLocals
    /\ pc' = "o_check_file"
    /\ UNCHANGED <<entry, system, file_exists, exc, raised, returned, trace,
                   text_landed, send_result, wf_timestamp_micro, watcher, monitor_result,
                   workflow_results, wc_timestamp_micro, wc_result>>
    /\ UNCHANGED <<cleanupVars, compVars>>

\* lines 2288-2297
WfAfterSend ==
    /\ pc = "w_after_send"
    /\ IF send_result.status # "success"
       THEN /\ workflow_results' =
                   [workflow_results EXCEPT
                       !.steps = ("send_prompt" :> send_result) @@ @,
                       !.status = "failed_at_send",
                       !.message = "send_failed"]
            /\ returned' = returned \cup {"workflow"}
            /\ pc' = AfterWorkflow
       ELSE /\ workflow_results' =
                   [workflow_results EXCEPT !.steps = ("send_prompt" :> send_result) @@ @]
            /\ pc' = "w_monitor"
            /\ UNCHANGED returned
    /\ UNCHANGED <<entry, system, file_exists, exc, raised, trace, locals,
                   text_landed, send_result, wf_timestamp_micro, watcher, monitor_result,
                   wc_timestamp_micro, wc_result>>
    /\ UNCHANGED <<cleanupVars, compVars>>

\* activate_terminal_for_claude (lines 576-622): what the osascript call
\* does: it prints one of the three results of the script, exits with a
\* nonzero code (check=True raises CalledProcessError), or raises another
\* error (osascript cannot be run)
TerminalScriptResults ==
    {"found_claude_window", "activated_first_window", "no_windows",
     "called_process_error", "other_error"}

\* lines 610-622: result_text is logged and not looked at; True is returned
\* unless the call raised
activate_terminal_for_claude(script) ==
    script \notin {"called_process_error", "other_error"}

\* lines 2167-2179: the activation of the prompt handling, per platform; on
\* the other platforms find_claude_cli_windows and activate_window_by_pid
PromptActivations(sys) ==
    IF sys = "darwin" THEN TerminalScriptResults ELSE {"activated", "not_activated"}

prompt_activation(sys, act) ==
    IF sys = "darwin" THEN activate_terminal_for_claude(act) ELSE act = "activated"

\* lines 2299-2302; an error that activate_terminal_for_claude lets through
\* ends in the except clause of monitor_and_handle_claude_prompts
WfMonitor ==
    /\ pc = "w_monitor"
    /\ \E mon \in MonitorOutcomes, suggested \in SuggestedActions,
          act \in PromptActivations(system), entered \in BOOLEAN :
        LET activated == prompt_activation(system, act)
            act_raises == /\ act = "other_error"
                          /\ mon = "found"
                          /\ suggested \in {"press_enter", "check_and_enter"}
            r == monitor_and_handle_claude_prompts(
                     IF act_raises THEN "raise" ELSE mon, suggested, activated, entered)
        IN
        /\ monitor_result' = [status |-> r.status, monitor |-> mon,
                              suggested_action |-> suggested,
                              activation |-> act,
                              window_activated |-> activated]
        /\ trace' = trace \o r.keys
        /\ workflow_results' =
               [workflow_results EXCEPT
                   !.steps = ("monitor_response" :> [status |-> r.status]) @@ @]
    /\ pc' = "w_final"
    /\ UNCHANGED <<entry, system, file_exists, exc, raised, returned, locals,
                   text_landed, send_result, wf_timestamp_micro, watcher,
                   wc_timestamp_micro, wc_result>>
    /\ UNCHANGED <<cleanupVars, compVars>>

\* lines 2304-2325: the summary parses the timestamp with "%Y-%m-%dT%H:%M:%S.%f",
\* which raises ValueError when isoformat() left out a zero microsecond part
WfFinal ==
    /\ pc = "w_final"
    /\ workflow_results' =
           [workflow_results EXCEPT !.status = workflow_final_status(monitor_result.status),
                                    !.message = "workflow_done"]
    /\ IF wf_timestamp_micro
       THEN /\ returned' = returned \cup {"workflow"}
            /\ pc' = AfterWorkflow
            /\ UNCHANGED exc
       ELSE /\ exc' = "strptime_value_error"
            /\ pc' = "w_except"
            /\ UNCHANGED returned
    /\ UNCHANGED <<entry, system, file_exists, raised, trace, locals,
                   text_landed, send_result, wf_timestamp_micro, watcher, monitor_result,
                   wc_timestamp_micro, wc_result>>
    /\ UNCHANGED <<cleanupVars, compVars>>

\* lines 2327-2331
WfExcept ==
    /\ pc = "w_except"
    /\ LET h == workflow_except(workflow_results, exc) IN
       IF h.caught
       THEN /\ workflow_results' = h.report
            /\ returned' = returned \cup {"workflow"}
            /\ exc' = "none"
            /\ pc' = AfterWorkflow
            /\ UNCHANGED raised
       ELSE /\ pc' = IF entry = "workflow" THEN "returned" ELSE "c_except"
            /\ raised' = (entry = "workflow")
            /\ UNCHANGED <<workflow_results, returned, exc>>
    /\ UNCHANGED <<entry, system, file_exists, trace, locals, text_landed, send_result,
                   wf_timestamp_micro, watcher, monitor_result,
                   wc_timestamp_micro, wc_result>>
    /\ UNCHANGED <<cleanupVars, compVars>>

\* lines 2277-2281, 1123-1175: a permission monitor thread leaves its polling
\* loop when its 60 seconds are over; the value permission_monitor() returns
\* is dropped by threading.Thread, so no variable of the workflow changes
PermissionMonitorExit ==
    /\ watcher > 0
    /\ watcher' = watcher - 1
    /\ UNCHANGED <<entry, pc, system, file_exists, exc, raised, returned, trace, locals,
                   text_landed, send_result, wf_timestamp_micro, monitor_result,
                   workflow_results, wc_timestamp_micro, wc_result>>
    /\ UNCHANGED <<cleanupVars, compVars>>

\* writes of other programs to the system clipboard since the trace began
ClipboardOverwrites == {i \in DOMAIN trace : trace[i] = "clipboard_overwrite"}

\* the system clipboard is shared with every program of the session (pbcopy,
\* clip, xclip, pyperclip of lines 1184-1203 write to it without owning it):
\* another program replaces its content; no variable of the caller changes
ExternalClipboardWrite ==
    /\ Cardinality(ClipboardOverwrites) < MaxWrites
    /\ trace' = Append(trace, "clipboard_overwrite")
    /\ UNCHANGED <<entry, pc, system, file_exists, exc, raised, returned, locals,
                   text_landed, send_result, wf_timestamp_micro, watcher, monitor_result,
                   workflow_results, wc_timestamp_micro, wc_result>>
    /\ UNCHANGED <<cleanupVars, compVars>>

\* input events the permission monitor thread has injected since the trace began
WatcherClicks == {i \in DOMAIN trace : trace[i] = "watcher_click"}

\* lines 1126-1139, 921-949, 1038-1064: a live permission monitor thread finds a
\* dialog in its scan and auto_click_allow_button clicks (System Events click,
\* pyautogui.click at the candidate positions); the thread takes no lock and
\* waits for no step of the workflow
PermissionMonitorClick ==
    /\ watcher > 0
    /\ Cardinality(WatcherClicks) < MaxClicks
    /\ trace' = Append(trace, "watcher_click")
    /\ UNCHANGED <<entry, pc, system, file_exists, exc, raised, returned, locals,
                   text_landed, send_result, wf_timestamp_micro, watcher, monitor_result,
                   workflow_results, wc_timestamp_micro, wc_result>>
    /\ UNCHANGED <<cleanupVars, compVars>>

\* the call has come back and the caller is free to call the module-level
\* claude_cli_automation object again (line 2845); threads of earlier calls
\* are not touched by the return
CallAgain ==
    /\ pc = "returned"
    /\ watcher < MaxThreads
    /\ entry' = "none"
    /\ pc' = "idle"
    /\ file_exists' = FALSE
    /\ exc' = "none"
    /\ raised' = FALSE
    /\ returned' = {}
    /\ trace' = <<>>
    /\ locals' = InitLocals
    /\ text_landed' = FALSE
    /\ send_result' = NoReport
    /\ wf_timestamp_micro' = TRUE
    /\ monitor_result' = NoReport
    /\ workflow_results' = NoReport
    /\ wc_timestamp_micro' = TRUE
    /\ wc_result' = NoReport
    /\ UNCHANGED <<system, watcher>>
    /\ UNCHANGED <<cleanupVars, compVars>>

(***************************************************************************)
(* complete_workflow_with_cleanup (lines 2779-2841)                        *)
(***************************************************************************)
\* lines 2795-2800
wc_result_init ==
    [status |-> "started", message |-> "none",
     cleanup_results |-> EmptyDict, automation_results |-> NoReport]

\* lines 2819-2825
with_cleanup_status(automation_status) ==
    IF automation_status \in {"success", "success_no_action_needed", "success_no_prompts"}
    THEN "success"
    ELSE "partial_success"

\* lines 2837-2841
with_cleanup_except(res, e) ==
    [caught |-> TRUE, report |-> [res EXCEPT !.status = "error", !.message = e]]

\* the caller invokes complete_workflow_with_cleanup(prompt_file, ...)
StartWithCleanup ==
    /\ entry = "none"
    /\ entry' = "with_cleanup"
    /\ \E exists \in BOOLEAN : file_exists' = exists
    /\ \E micro \in BOOLEAN : wc_timestamp_micro' = micro
    /\ wc_result' = wc_result_init
    /\ pc' = "c_terminals"
    /\ UNCHANGED <<system, exc, raised, returned, trace, locals, text_landed, send_result,
                   wf_timestamp_micro, watcher, monitor_result, workflow_results>>
    /\ UNCHANGED <<cleanupVars, compVars>>

\* lines 2806-2808: cleanup_multiple_terminals(max_terminals)
WcTerminals ==
    /\ pc = "c_terminals"
    /\ \E max_terminals \in 1..MaxKeep :
        \E terminal_cleanup \in TerminalCleanupReports(max_terminals) :
            wc_result' = [wc_result EXCEPT
                             !.cleanup_results = ("terminals" :> terminal_cleanup) @@ @]
    /\ pc' = "c_claude"
    /\ UNCHANGED <<entry, system, file_exists, exc, raised, returned, trace, locals,
                   text_landed, send_result, wf_timestamp_micro, watcher, monitor_result,
                   workflow_results, wc_timestamp_micro>>
    /\ UNCHANGED <<cleanupVars, compVars>>

\* lines 2810-2812: cleanup_claude_processes(keep_claude_processes)
WcClaude ==
    /\ pc = "c_claude"
    /\ \E keep_claude_processes \in 1..MaxKeep :
        \E claude_cleanup \in ClaudeCleanupReports(keep_claude_processes) :
            wc_result' = [wc_result EXCEPT
                             !.cleanup_results = ("claude_processes" :> claude_cleanup) @@ @]
    /\ pc' = "c_automation"
    /\ UNCHANGED <<entry, system, file_exists, exc, raised, returned, trace, locals,
                   text_landed, send_result, wf_timestamp_micro, watcher, monitor_result,
                   workflow_results, wc_timestamp_micro>>
    /\ UNCHANGED <<cleanupVars, compVars>>

\* line 2816: call complete_automation_workflow(prompt_file, monitor_duration)
WcAutomation ==
    /\ pc = "c_automation"
    /\ \E micro \in BOOLEAN : wf_timestamp_micro' = micro
    /\ workflow_results' = workflow_results_init
    /\ pc' = "w_cleanup"
    /\ UNCHANGED <<entry, system, file_exists, exc, raised, returned, trace, locals,
                   text_landed, send_result, watcher, monitor_result,
                   wc_timestamp_micro, wc_result>>
    /\ UNCHANGED <<cleanupVars, compVars>>

\* lines 2817-2835: the summary parses the timestamp as WfFinal does
WcFinal ==
    /\ pc = "c_after_automation"
    /\ wc_result' = [wc_result EXCEPT
                        !.automation_results = workflow_results,
                        !.status = with_cleanup_status(workflow_results.status),
                        !.message = "with_cleanup_done"]
    /\ IF wc_timestamp_micro
       THEN /\ returned' = returned \cup {"with_cleanup"}
            /\ pc' = "returned"
            /\ UNCHANGED exc
       ELSE /\ exc' = "strptime_value_error"
            /\ pc' = "c_except"
            /\ UNCHANGED returned
    /\ UNCHANGED <<entry, system, file_exists, raised, trace, locals, text_landed,
                   send_result, wf_timestamp_micro, watcher, monitor_result,
                   workflow_results, wc_timestamp_micro>>
    /\ UNCHANGED <<cleanupVars, compVars>>

\* lines 2837-2841
WcExcept ==
    /\ pc = "c_except"
    /\ LET h == with_cleanup_except(wc_result, exc) IN
       IF h.caught
       THEN /\ wc_result' = h.report
            /\ returned' = returned \cup {"with_cleanup"}
            /\ exc' = "none"
            /\ UNCHANGED raised
       ELSE /\ raised' = TRUE
            /\ UNCHANGED <<wc_result, returned, exc>>
    /\ pc' = "returned"
    /\ UNCHANGED <<entry, system, file_exists, trace, locals, text_landed, send_result,
                   wf_timestamp_micro, watcher, monitor_result, workflow_results,
                   wc_timestamp_micro>>
    /\ UNCHANGED <<cleanupVars, compVars>>

(***************************************************************************)
(* Specifications                                                          *)
(***************************************************************************)
Systems == {"windows", "darwin", "linux"}

FlowIdle ==
    /\ entry = "none"
    /\ pc = "idle"
    /\ file_exists = FALSE
    /\ exc = "none"
    /\ raised = FALSE
    /\ returned = {}
    /\ trace = <<>>
    /\ locals = InitLocals
    /\ text_landed = FALSE
    /\ send_result = NoReport
    /\ wf_timestamp_micro = TRUE
    /\ watcher = 0
    /\ monitor_result = NoReport
    /\ workflow_results = NoReport
    /\ wc_timestamp_micro = TRUE
    /\ wc_result = NoReport

\* cleanup_old_claude_processes on its own; it does not read self.system
(***************************************************************************)
(* KeyboardController.send_paste_command and send_enter (lines 1407-1582): *)
(* a loop over attempt = 0 .. max_attempts-1 in which the attempt number    *)
(* selects the injection backend.                                          *)
(***************************************************************************)
\* the paste backends in their configured order
PasteBackendOrder(sys) ==
    IF sys = "darwin"
    THEN <<"pyautogui_keydown_cmd_v", "pynput_cmd_v", "applescript_cmd_v">>
    ELSE <<"pyautogui_keydown_ctrl_v", "pynput_ctrl_v", "pyautogui_manual_ctrl_v">>

\* mutant: every attempt repeats the first backend
paste_backend_first(sys, attempt) == PasteBackendOrder(sys)[1]

\* _macos_paste_with_multiple_methods / _windows_linux_paste: the if/elif on
\* attempt; for attempt > 2 no branch is taken and the method returns None
paste_backend(sys, attempt) ==
    IF sys = "darwin"
    THEN CASE attempt = 0 -> "pyautogui_keydown_cmd_v"
           [] attempt = 1 -> "pynput_cmd_v"
           [] attempt = 2 -> "applescript_cmd_v"
           [] OTHER -> "none"
    ELSE CASE attempt = 0 -> "pyautogui_keydown_ctrl_v"
           [] attempt = 1 -> "pynput_ctrl_v"
           [] attempt = 2 -> "pyautogui_manual_ctrl_v"
           [] OTHER -> "none"

\* send_enter: the if/elif on attempt (lines 1531-1568)
enter_backend(sys, attempt) ==
    CASE attempt = 0 -> "pyautogui_press_enter"
      [] attempt = 1 -> "pynput_enter"
      [] attempt = 2 -> IF sys = "darwin" THEN "applescript_enter"
                        ELSE "pyautogui_manual_enter"
      [] OTHER -> "none"

\* what invoking a backend can do: inject the keys, raise, or (osascript for
\* paste, line 1470) exit with a nonzero code
BackendOutcomes(backend) ==
    CASE backend = "none" -> {"no_backend"}
      [] backend = "applescript_cmd_v" -> {"ok", "raise", "nonzero"}
      [] OTHER -> {"ok", "raise"}

\* mutant: the loop goes on after a successful injection
kb_after_attempt_retry(success) == "retry"

\* lines 1417-1419, 1424-1426, 1570-1572: return True on success, else loop on
kb_after_attempt(success) == IF success THEN "return_true" ELSE "retry"

KbStart ==
    /\ kb_pc = "idle"
    /\ \E op \in {"paste", "enter"}, m \in 0..MaxAttempts :
        /\ kb_op' = op
        /\ kb_max_attempts' = m
    /\ kb_attempt' = 0
    /\ kb_pc' = "loop"
    /\ UNCHANGED <<kb_log, kb_ret>>
    /\ UNCHANGED <<cleanupVars, flowVars, termVars, clipVars, monVars, detVars,
                   launchVars, actVars, clickVars, awVars, llmVars, pmVars>>

\* one iteration of `for attempt in range(max_attempts)`
KbAttempt ==
    /\ kb_pc = "loop"
    /\ kb_attempt < kb_max_attempts
    /\ LET backend == IF kb_op = "paste" THEN paste_backend(system, kb_attempt)
                      ELSE enter_backend(system, kb_attempt)
       IN \E outcome \in BackendOutcomes(backend) :
           /\ kb_log' = IF backend = "none" THEN kb_log
                        ELSE Append(kb_log, [backend |-> backend, outcome |-> outcome])
           /\ IF kb_after_attempt(outcome = "ok") = "return_true"
              THEN /\ kb_ret' = "true"
                   /\ kb_pc' = "done"
                   /\ UNCHANGED kb_attempt
              ELSE /\ kb_attempt' = kb_attempt + 1
                   /\ UNCHANGED <<kb_ret, kb_pc>>
    /\ UNCHANGED <<kb_op, kb_max_attempts>>
    /\ UNCHANGED <<cleanupVars, flowVars, termVars, clipVars, monVars, detVars,
                   launchVars, actVars, clickVars, awVars, llmVars, pmVars>>

\* lines 1432-1433, 1581-1582: the loop ran out
KbGiveUp ==
    /\ kb_pc = "loop"
    /\ kb_attempt >= kb_max_attempts
    /\ kb_ret' = "false"
    /\ kb_pc' = "done"
    /\ UNCHANGED <<kb_op, kb_max_attempts, kb_attempt, kb_log>>
    /\ UNCHANGED <<cleanupVars, flowVars, termVars, clipVars, monVars, detVars,
                   launchVars, actVars, clickVars, awVars, llmVars, pmVars>>

KeyboardIdle ==
    /\ kb_pc = "idle"
    /\ kb_op = "none"
    /\ kb_max_attempts = 0
    /\ kb_attempt = 0
    /\ kb_log = <<>>
    /\ kb_ret = "none"

(***************************************************************************)
(* ClipboardManager (lines 1178-1377).  Texts are sequences of characters. *)
(***************************************************************************)
CopyVerifyMinLen == 10
CopyVerifyPrefix == 100
ClipVerifySample == 200

Rep(c, n) == [i \in 1..n |-> c]

\* texts copied and contents the clipboard may hold before the call
Texts ==
    {Rep("a", n) : n \in 0..MaxTextLen}
        \cup {<<"b">> \o Rep("a", n) : n \in 0..MaxTextLen}
        \cup {<<"A">> \o Rep("a", MaxTextLen), <<" ">> \o Rep("a", MaxTextLen),
              Rep(" ", 2)}

\* s[:n]
Slice(s, n) == SubSeq(s, 1, Min(n, Len(s)))

RECURSIVE LStrip(_)
LStrip(s) == IF s # <<>> /\ Head(s) = " " THEN LStrip(Tail(s)) ELSE s

RECURSIVE RStrip(_)
RStrip(s) ==
    IF s # <<>> /\ s[Len(s)] = " " THEN RStrip(SubSeq(s, 1, Len(s) - 1)) ELSE s

\* str.strip()
Strip(s) == RStrip(LStrip(s))

\* str.lower()
Lower(s) == [i \in 1..Len(s) |-> IF s[i] = "A" THEN "a" ELSE s[i]]

\* x in y, for strings
IsIn(x, y) == \E i \in 0..(Len(y) - Len(x)) : SubSeq(y, i + 1, i + Len(x)) = x

\* get_clipboard_content with a readable clipboard (lines 1315-1342)
get_clipboard_content == clipboard

\* _verify_copy_success (lines 1302-1313) on the content read back
verify_copy_success(expected_text, current_content) ==
    IF current_content # <<>> /\ Len(current_content) > CopyVerifyMinLen
    THEN LET expected_start == Strip(Slice(expected_text, CopyVerifyPrefix))
             current_start == Strip(Slice(current_content, CopyVerifyPrefix))
         IN IsIn(expected_start, current_start) \/ IsIn(current_start, expected_start)
    ELSE FALSE

\* the read-back check of _copy_with_macos_native (lines 1257-1258)
native_copy_check(text, content) ==
    content # <<>> /\ IsIn(Slice(text, CopyVerifyPrefix), content)

\* verify_clipboard_content (lines 1357-1377) while nothing else writes the
\* clipboard: every poll reads the same content
verify_clipboard_content(expected_text, current_content) ==
    /\ current_content # <<>>
    /\ LET expected_sample == Lower(Strip(Slice(expected_text, ClipVerifySample)))
           current_sample == Lower(Strip(Slice(current_content, ClipVerifySample)))
       IN \/ IsIn(expected_sample, current_sample)
          \/ IsIn(current_sample, expected_sample)
          \/ 10 * Len(Strip(current_content)) > 8 * Len(Strip(expected_text))

\* the backends of copy_to_clipboard in their order (lines 1188-1238)
ClipBackendOrder(sys) ==
    IF sys = "darwin" THEN <<"pyperclip", "macos_native", "applescript", "pbcopy">>
    ELSE <<"pyperclip">>

\* a backend writes the text, returns without having written it, raises, or
\* (native pasteboard) is not installed
ClipOutcomes(backend) ==
    IF backend = "macos_native" THEN {"written", "silent", "raise", "unavailable"}
    ELSE {"written", "silent", "raise"}

\* whether the backend counts as succeeded, given the content after its call
backend_succeeded(backend, outcome, text, content) ==
    IF outcome \in {"raise", "unavailable"} THEN FALSE
    ELSE IF backend = "macos_native" THEN native_copy_check(text, content)
    ELSE verify_copy_success(text, content)

\* first call: lines 1184-1186
ClipStart ==
    /\ clip_pc = "idle"
    /\ \E text \in Texts, before \in Texts :
        /\ clip_text' = text
        /\ clipboard' = before
    /\ clip_pc' = "backends"
    /\ UNCHANGED <<clip_idx, clip_log, clip_faulty, clip_rets, clip_verifs>>
    /\ UNCHANGED <<cleanupVars, flowVars, termVars, kbVars, monVars, detVars,
                   launchVars, actVars, clickVars, awVars, llmVars, pmVars>>

\* one backend of the chain: write, read back, return True or go on
ClipBackend ==
    /\ clip_pc = "backends"
    /\ clip_idx <= Len(ClipBackendOrder(system))
    /\ LET backend == ClipBackendOrder(system)[clip_idx] IN
       \E outcome \in ClipOutcomes(backend) :
           LET content == IF outcome = "written" THEN clip_text ELSE clipboard
               ok == backend_succeeded(backend, outcome, clip_text, content)
           IN /\ clipboard' = content
              /\ clip_log' = Append(clip_log, [backend |-> backend, outcome |-> outcome,
                                               succeeded |-> ok])
              /\ clip_faulty' = (clip_faulty \/ outcome # "written")
              /\ IF ok
                 THEN /\ clip_rets' = Append(clip_rets, "true")
                      /\ clip_pc' = "returned"
                      /\ UNCHANGED clip_idx
                 ELSE /\ clip_idx' = clip_idx + 1
                      /\ UNCHANGED <<clip_rets, clip_pc>>
    /\ UNCHANGED <<clip_text, clip_verifs>>
    /\ UNCHANGED <<cleanupVars, flowVars, termVars, kbVars, monVars, detVars,
                   launchVars, actVars, clickVars, awVars, llmVars, pmVars>>

\* lines 1240-1241: every applicable backend failed
ClipGiveUp ==
    /\ clip_pc = "backends"
    /\ clip_idx > Len(ClipBackendOrder(system))
    /\ clip_rets' = Append(clip_rets, "false")
    /\ clip_pc' = "returned"
    /\ UNCHANGED <<clip_text, clipboard, clip_idx, clip_log, clip_faulty, clip_verifs>>
    /\ UNCHANGED <<cleanupVars, flowVars, termVars, kbVars, monVars, detVars,
                   launchVars, actVars, clickVars, awVars, llmVars, pmVars>>

\* verify_clipboard_content(text) after the call
ClipVerify ==
    /\ clip_pc = "returned"
    /\ clip_verifs' = Append(clip_verifs,
                             verify_clipboard_content(clip_text, get_clipboard_content))
    /\ clip_pc' = IF Len(clip_rets) < 2 THEN "again" ELSE "done"
    /\ UNCHANGED <<clip_text, clipboard, clip_idx, clip_log, clip_faulty, clip_rets>>
    /\ UNCHANGED <<cleanupVars, flowVars, termVars, kbVars, monVars, detVars,
                   launchVars, actVars, clickVars, awVars, llmVars, pmVars>>

\* a second copy_to_clipboard call with the same text
ClipSecondCall ==
    /\ clip_pc = "again"
    /\ clip_idx' = 1
    /\ clip_log' = <<>>
    /\ clip_pc' = "backends"
    /\ UNCHANGED <<clip_text, clipboard, clip_faulty, clip_rets, clip_verifs>>
    /\ UNCHANGED <<cleanupVars, flowVars, termVars, kbVars, monVars, detVars,
                   launchVars, actVars, clickVars, awVars, llmVars, pmVars>>

ClipboardIdle ==
    /\ clip_pc = "idle"
    /\ clip_text = <<>>
    /\ clipboard = <<>>
    /\ clip_idx = 1
    /\ clip_log = <<>>
    /\ clip_faulty = FALSE
    /\ clip_rets = <<>>
    /\ clip_verifs = <<>>

(***************************************************************************)
(* ScreenTextDetector.monitor_for_prompts (lines 241-293).  Time is counted *)
(* in seconds and advances with the time.sleep(check_interval) calls.       *)
(***************************************************************************)
\* mutant: the loop never times out
loop_continues_always(elapsed, duration) == TRUE

\* line 257: while time.time() - start_time < duration_seconds
loop_continues(elapsed, duration) == elapsed < duration

\* line 321: threshold = 10.0
ChangeThreshold == 10

\* mean difference of the lower 30% of two captures (lines 304-318); -1 stands
\* for a comparison that raises
RegionDiffs == {-1, 0, ChangeThreshold, ChangeThreshold + 1}

\* mutant: every comparison reports a change
detect_screen_changes_always(mean_diff) == TRUE

\* _detect_screen_changes (lines 295-332): mean_diff > threshold; an exception
\* is logged and False is returned
detect_screen_changes(mean_diff) == mean_diff # -1 /\ mean_diff > ChangeThreshold

\* mutant: a positive detection is ignored
after_detection_ignore(found) == "sleep"

\* lines 273-279: return the found report at once, else go on to the sleep
after_detection(found) == IF found THEN "return_found" ELSE "sleep"

MonStart ==
    /\ mon_pc = "idle"
    /\ \E d \in 0..MaxDuration, i \in 1..MaxInterval :
        /\ duration_seconds' = d
        /\ check_interval' = i
    /\ mon_pc' = "loop"
    /\ UNCHANGED <<mon_clock, mon_tick, last_screenshot, mon_errors, mon_fired_at,
                   mon_max_diff, mon_report>>
    /\ UNCHANGED <<cleanupVars, flowVars, termVars, kbVars, clipVars, detVars,
                   launchVars, actVars, clickVars, awVars, llmVars, pmVars>>

\* lines 258-286: one poll.  capture is the outcome of pyautogui.screenshot(),
\* mean_diff the difference of the lower region from the last capture,
\* detection the outcome of detect_yes_proceed_options
MonPoll ==
    /\ mon_pc = "loop"
    /\ mon_tick < MaxPolls
    /\ loop_continues(mon_clock, duration_seconds)
    /\ \E capture \in {"ok", "raise"}, mean_diff \in RegionDiffs,
          detection \in {"found", "not_found", "raise"} :
        LET compared == capture = "ok" /\ last_screenshot = "shot"
            changed == detect_screen_changes(mean_diff)
            detected == compared /\ changed /\ detection = "found"
            failed == capture = "raise" \/ (compared /\ changed /\ detection = "raise")
        IN /\ mon_fired_at' = IF detected /\ mon_fired_at = -1 THEN mon_tick
                              ELSE mon_fired_at
           /\ mon_max_diff' = IF compared /\ mean_diff > mon_max_diff THEN mean_diff
                              ELSE mon_max_diff
           /\ IF detected /\ after_detection(TRUE) = "return_found"
              THEN /\ mon_report' = [status |-> "found", time_taken |-> mon_clock]
                   /\ mon_pc' = "done"
                   /\ UNCHANGED <<mon_clock, mon_tick, last_screenshot, mon_errors>>
              ELSE /\ last_screenshot' = IF failed THEN last_screenshot ELSE "shot"
                   /\ mon_errors' = IF failed THEN mon_errors + 1 ELSE mon_errors
                   /\ mon_clock' = mon_clock + check_interval
                   /\ mon_tick' = mon_tick + 1
                   /\ UNCHANGED <<mon_report, mon_pc>>
    /\ UNCHANGED <<duration_seconds, check_interval>>
    /\ UNCHANGED <<cleanupVars, flowVars, termVars, kbVars, clipVars, detVars,
                   launchVars, actVars, clickVars, awVars, llmVars, pmVars>>

\* lines 288-293: the duration has elapsed
MonTimeout ==
    /\ mon_pc = "loop"
    /\ ~loop_continues(mon_clock, duration_seconds)
    /\ mon_report' = [status |-> "timeout", time_taken |-> duration_seconds]
    /\ mon_pc' = "done"
    /\ UNCHANGED <<duration_seconds, check_interval, mon_clock, mon_tick,
                   last_screenshot, mon_errors, mon_fired_at, mon_max_diff>>
    /\ UNCHANGED <<cleanupVars, flowVars, termVars, kbVars, clipVars, detVars,
                   launchVars, actVars, clickVars, awVars, llmVars, pmVars>>

MonitorIdle ==
    /\ mon_pc = "idle"
    /\ duration_seconds = 0
    /\ check_interval = 1
    /\ mon_clock = 0
    /\ mon_tick = 0
    /\ last_screenshot = "none"
    /\ mon_errors = 0
    /\ mon_fired_at = -1
    /\ mon_max_diff = 0
    /\ mon_report = NoReport

(***************************************************************************)
(* ScreenTextDetector.detect_yes_proceed_options (lines 65-239).           *)
(***************************************************************************)
\* result dict at entry (lines 75-81)
det_result_init ==
    [found |-> FALSE, suggested_action |-> "None", detection_method |-> "None"]

\* mutant: the pattern heuristic runs first
detector_chain_pattern_first(sys, ocr, libs) ==
    <<"Pattern Analysis", "Template Matching">>
        \o (IF ocr THEN <<"OCR">> ELSE <<>>)
        \o (IF sys = "darwin" /\ libs THEN <<"macOS Vision">> ELSE <<>>)

\* the detectors the function runs, in order (lines 88-116)
detector_chain(sys, ocr, libs) ==
    (IF ocr THEN <<"OCR">> ELSE <<>>)
        \o (IF sys = "darwin" /\ libs THEN <<"macOS Vision">> ELSE <<>>)
        \o <<"Template Matching", "Pattern Analysis">>

\* what each detector can report: _detect_with_ocr finds a pattern in the
\* recognised text or not (an exception inside is caught, lines 166-167);
\* _detect_with_vision and _detect_with_template_matching never set found;
\* _detect_with_pattern_analysis sets found unless its body raises
DetectorOutcomes(detector) ==
    CASE detector = "OCR" -> {"found", "not_found", "raise"}
      [] detector = "macOS Vision" -> {"not_found"}
      [] detector = "Template Matching" -> {"not_found"}
      [] detector = "Pattern Analysis" -> {"found", "raise"}

\* suggested_action of a positive result (lines 163, 234)
suggested_action_of(detector) ==
    IF detector = "OCR" THEN "press_enter" ELSE "check_and_enter"

\* lines 75-86: flags, result dict, screenshot
DetStart ==
    /\ det_pc = "idle"
    /\ \E ocr \in BOOLEAN, libs \in BOOLEAN, capture \in {"given", "captured", "raise"} :
        /\ libs => system = "darwin"
        /\ ocr_available' = ocr
        /\ macos_libs_available' = libs
        /\ det_capture' = capture
        /\ det_pc' = IF capture = "raise" THEN "done" ELSE "chain"
    /\ det_result' = det_result_init
    /\ UNCHANGED <<det_idx, det_log>>
    /\ UNCHANGED <<cleanupVars, flowVars, termVars, kbVars, clipVars, monVars,
                   launchVars, actVars, clickVars, awVars, llmVars, pmVars>>

\* one detector of the chain: return its result if positive, else go on
DetRun ==
    /\ det_pc = "chain"
    /\ det_idx <= Len(detector_chain(system, ocr_available, macos_libs_available))
    /\ LET detector == detector_chain(system, ocr_available, macos_libs_available)[det_idx]
       IN \E outcome \in DetectorOutcomes(detector) :
           LET found == outcome = "found" IN
           /\ det_log' = Append(det_log, [detector |-> detector, found |-> found])
           /\ IF found
              THEN /\ det_result' = [found |-> TRUE,
                                     suggested_action |-> suggested_action_of(detector),
                                     detection_method |-> detector]
                   /\ det_pc' = "done"
                   /\ UNCHANGED det_idx
              ELSE /\ det_idx' = det_idx + 1
                   /\ UNCHANGED <<det_result, det_pc>>
    /\ UNCHANGED <<ocr_available, macos_libs_available, det_capture>>
    /\ UNCHANGED <<cleanupVars, flowVars, termVars, kbVars, clipVars, monVars,
                   launchVars, actVars, clickVars, awVars, llmVars, pmVars>>

\* line 121: no detector matched
DetNone ==
    /\ det_pc = "chain"
    /\ det_idx > Len(detector_chain(system, ocr_available, macos_libs_available))
    /\ det_pc' = "done"
    /\ UNCHANGED <<ocr_available, macos_libs_available, det_capture, det_idx, det_log,
                   det_result>>
    /\ UNCHANGED <<cleanupVars, flowVars, termVars, kbVars, clipVars, monVars,
                   launchVars, actVars, clickVars, awVars, llmVars, pmVars>>

DetectorIdle ==
    /\ det_pc = "idle"
    /\ ocr_available = FALSE
    /\ macos_libs_available = FALSE
    /\ det_capture = "none"
    /\ det_idx = 1
    /\ det_log = <<>>
    /\ det_result = det_result_init

(***************************************************************************)
(* ProcessLauncher.launch_claude_cli (lines 1697-1760)                     *)
(***************************************************************************)
\* lines 1714, 1731, 1741-1746: the commands handed to subprocess.Popen
TerminalCommands(sys) ==
    IF sys = "windows" THEN <<"cmd">>
    ELSE IF sys = "darwin" THEN <<"osascript">>
    ELSE <<"gnome-terminal", "xterm", "konsole", "x-terminal-emulator">>

\* subprocess.Popen returns a process, or raises FileNotFoundError (no such
\* program) or another OSError (PermissionError, exec format error, ...)
SpawnOutcomes == {"spawned", "file_not_found", "os_error"}

\* lines 1748-1760: the inner except names FileNotFoundError only; any other
\* exception leaves the loop and is caught by the outer except, which returns
\* None.  Windows and macOS (lines 1710-1735) have one command and one except.
after_spawn(sys, outcome) ==
    IF outcome = "spawned" THEN "return_process"
    ELSE IF sys = "linux" /\ outcome = "file_not_found" THEN "continue"
    ELSE "return_none"

LaunchStart ==
    /\ l_pc = "idle"
    /\ \E env \in [1..Len(TerminalCommands(system)) -> SpawnOutcomes] : l_env' = env
    /\ l_idx' = 1
    /\ l_pc' = "loop"
    /\ UNCHANGED <<l_log, l_ret>>
    /\ UNCHANGED <<cleanupVars, flowVars, termVars, kbVars, clipVars, monVars, detVars,
                   actVars, clickVars, awVars, llmVars, pmVars>>

\* lines 1748-1753: one pass of the loop over terminal_commands
LaunchSpawn ==
    /\ l_pc = "loop"
    /\ l_idx <= Len(TerminalCommands(system))
    /\ LET cmd == TerminalCommands(system)[l_idx]
           todo == after_spawn(system, l_env[l_idx]) IN
       /\ l_log' = Append(l_log, cmd)
       /\ IF todo = "return_process"
          THEN l_ret' = cmd /\ l_pc' = "returned" /\ UNCHANGED l_idx
          ELSE IF todo = "continue"
          THEN l_idx' = l_idx + 1 /\ UNCHANGED <<l_ret, l_pc>>
          ELSE l_ret' = "None" /\ l_pc' = "returned" /\ UNCHANGED l_idx
    /\ UNCHANGED l_env
    /\ UNCHANGED <<cleanupVars, flowVars, termVars, kbVars, clipVars, monVars, detVars,
                   actVars, clickVars, awVars, llmVars, pmVars>>

\* lines 1755-1756: the list is used up
LaunchNoTerminal ==
    /\ l_pc = "loop"
    /\ l_idx > Len(TerminalCommands(system))
    /\ l_ret' = "None"
    /\ l_pc' = "returned"
    /\ UNCHANGED <<l_env, l_idx, l_log>>
    /\ UNCHANGED <<cleanupVars, flowVars, termVars, kbVars, clipVars, monVars, detVars,
                   actVars, clickVars, awVars, llmVars, pmVars>>

LaunchIdle ==
    /\ l_pc = "idle"
    /\ l_env = <<>>
    /\ l_idx = 1
    /\ l_log = <<>>
    /\ l_ret = "unset"

(***************************************************************************)
(* WindowManager.activate_window_by_pid (lines 406-547, 826-841)           *)
(***************************************************************************)
\* the activation methods of each platform in the order of the code
ActivationMethods(sys) ==
    IF sys = "windows" THEN <<"pyautogui_windows", "tasklist_alt_tab", "win32gui">>
    ELSE IF sys = "darwin" THEN <<"applescript_pid", "applescript_terminal", "quartz">>
    ELSE <<"xdotool", "wmctrl">>

\* what running a method can do: activate the window, report no success,
\* raise CalledProcessError or FileNotFoundError, raise something else; the
\* Quartz method is not run when the native libraries are missing (line 541)
ActivationOutcomes(method) ==
    CASE method \in {"pyautogui_windows", "tasklist_alt_tab", "win32gui"} ->
             {"ok", "no_success", "other_error"}
      [] method = "applescript_pid" ->
             {"ok", "no_success", "called_process_error", "file_not_found", "other_error"}
      [] method = "applescript_terminal" ->
             {"ok", "called_process_error", "file_not_found", "other_error"}
      [] method = "quartz" -> {"ok", "no_success", "other_error", "unavailable"}
      [] OTHER -> {"ok", "called_process_error", "file_not_found", "other_error"}

\* the except clause around each method: Exception on Windows (lines 441, 459,
\* 484) and around Quartz (line 544), CalledProcessError around the two
\* AppleScript calls (lines 515, 534), CalledProcessError and
\* FileNotFoundError around xdotool and wmctrl (lines 835, 840).  An exception
\* no clause names ends the call in the except of activate_window_by_pid.
after_activation_method(method, outcome) ==
    IF outcome = "ok" THEN "return_true"
    ELSE IF outcome \in {"no_success", "unavailable"} THEN "next"
    ELSE IF method \in {"pyautogui_windows", "tasklist_alt_tab", "win32gui", "quartz"}
    THEN "next"
    ELSE IF method \in {"applescript_pid", "applescript_terminal"}
    THEN IF outcome = "called_process_error" THEN "next" ELSE "abort"
    ELSE IF outcome \in {"called_process_error", "file_not_found"} THEN "next"
    ELSE "abort"

ActivateStart ==
    /\ a_pc = "idle"
    /\ \E env \in [1..Len(ActivationMethods(system)) ->
                       {"ok", "no_success", "called_process_error", "file_not_found",
                        "other_error", "unavailable"}] :
        /\ \A i \in DOMAIN env : env[i] \in ActivationOutcomes(ActivationMethods(system)[i])
        /\ a_env' = env
    /\ a_idx' = 1
    /\ a_pc' = "methods"
    /\ UNCHANGED <<a_log, a_ret>>
    /\ UNCHANGED <<cleanupVars, flowVars, termVars, kbVars, clipVars, monVars, detVars,
                   launchVars, clickVars, awVars, llmVars, pmVars>>

\* one activation method is run
ActivateMethod ==
    /\ a_pc = "methods"
    /\ a_idx <= Len(ActivationMethods(system))
    /\ LET method == ActivationMethods(system)[a_idx]
           todo == after_activation_method(method, a_env[a_idx]) IN
       /\ a_log' = IF a_env[a_idx] = "unavailable" THEN a_log ELSE Append(a_log, method)
       /\ IF todo = "return_true"
          THEN a_ret' = TRUE /\ a_pc' = "returned" /\ UNCHANGED a_idx
          ELSE IF todo = "next"
          THEN a_idx' = a_idx + 1 /\ UNCHANGED <<a_ret, a_pc>>
          ELSE a_ret' = FALSE /\ a_pc' = "returned" /\ UNCHANGED a_idx
    /\ UNCHANGED a_env
    /\ UNCHANGED <<cleanupVars, flowVars, termVars, kbVars, clipVars, monVars, detVars,
                   launchVars, clickVars, awVars, llmVars, pmVars>>

\* lines 487, 547, 841: no method activated the window
ActivateGiveUp ==
    /\ a_pc = "methods"
    /\ a_idx > Len(ActivationMethods(system))
    /\ a_ret' = FALSE
    /\ a_pc' = "returned"
    /\ UNCHANGED <<a_env, a_idx, a_log>>
    /\ UNCHANGED <<cleanupVars, flowVars, termVars, kbVars, clipVars, monVars, detVars,
                   launchVars, clickVars, awVars, llmVars, pmVars>>

ActivationIdle ==
    /\ a_pc = "idle"
    /\ a_env = <<>>
    /\ a_idx = 1
    /\ a_log = <<>>
    /\ a_ret = "unset"

(***************************************************************************)
(* MacOSPermissionHandler.auto_click_allow_button (lines 921-1106)         *)
(***************************************************************************)
\* lines 928-942
ClickMethods == <<"applescript_click", "pyautogui_click", "ocr_click">>

\* lines 1042-1046: the preset button positions of _pyautogui_click_allow
ButtonAreas == 3

\* at one position: the click raises, or detect_permission_dialogs() after the
\* click finds a dialog or none
RescanResults == {"no_dialog", "dialog", "click_raised"}

\* what the click methods meet: whether the AppleScript finds and clicks a
\* button, whether pyautogui is installed, the re-scan after each estimated
\* click, and what the OCR method does (not run when ocr_available is false)
ClickEnvs ==
    [applescript : BOOLEAN,
     pyautogui : BOOLEAN,
     rescans : [1..ButtonAreas -> RescanResults],
     ocr : {"clicked", "no_button", "raise", "unavailable"}]

\* mutant: a click that did not raise counts as a success
rescan_confirms_any_click(r) == r # "click_raised"

\* lines 1054-1057: len(dialogs_after) == 0
rescan_confirms(r) == r = "no_dialog"

\* _pyautogui_click_allow (lines 1011-1068): the positions are clicked in turn
\* until a re-scan confirms; success and the number of positions visited
pyautogui_click_allow(available, rescans) ==
    IF ~available THEN [success |-> FALSE, positions |-> 0]
    ELSE LET hits == {i \in DOMAIN rescans : rescan_confirms(rescans[i])} IN
         IF hits = {} THEN [success |-> FALSE, positions |-> Len(rescans)]
         ELSE [success |-> TRUE,
               positions |-> CHOOSE i \in hits : \A j \in hits : i <= j]

\* lines 923-925: other platforms return False at once
ClickStart ==
    /\ k_pc = "idle"
    /\ \E env \in ClickEnvs : k_env' = env
    /\ IF system # "darwin"
       THEN k_ret' = FALSE /\ k_pc' = "returned"
       ELSE k_pc' = "methods" /\ UNCHANGED k_ret
    /\ UNCHANGED <<k_idx, k_log, k_positions>>
    /\ UNCHANGED <<cleanupVars, flowVars, termVars, kbVars, clipVars, monVars, detVars,
                   launchVars, actVars, awVars, llmVars, pmVars>>

\* lines 928-942: one click method is run; each catches its own exceptions
ClickMethod ==
    /\ k_pc = "methods"
    /\ k_idx <= Len(ClickMethods)
    /\ LET method == ClickMethods[k_idx]
           estimate == pyautogui_click_allow(k_env.pyautogui, k_env.rescans)
           success == CASE method = "applescript_click" -> k_env.applescript
                        [] method = "pyautogui_click" -> estimate.success
                        [] OTHER -> k_env.ocr = "clicked" IN
       /\ k_log' = IF method = "ocr_click" /\ k_env.ocr = "unavailable"
                   THEN k_log ELSE Append(k_log, method)
       /\ k_positions' = IF method = "pyautogui_click" THEN estimate.positions
                         ELSE k_positions
       /\ IF success
          THEN k_ret' = TRUE /\ k_pc' = "returned" /\ UNCHANGED k_idx
          ELSE k_idx' = k_idx + 1 /\ UNCHANGED <<k_ret, k_pc>>
    /\ UNCHANGED k_env
    /\ UNCHANGED <<cleanupVars, flowVars, termVars, kbVars, clipVars, monVars, detVars,
                   launchVars, actVars, awVars, llmVars, pmVars>>

\* lines 944-945
ClickGiveUp ==
    /\ k_pc = "methods"
    /\ k_idx > Len(ClickMethods)
    /\ k_ret' = FALSE
    /\ k_pc' = "returned"
    /\ UNCHANGED <<k_env, k_idx, k_log, k_positions>>
    /\ UNCHANGED <<cleanupVars, flowVars, termVars, kbVars, clipVars, monVars, detVars,
                   launchVars, actVars, awVars, llmVars, pmVars>>

ClickIdle ==
    /\ k_pc = "idle"
    /\ k_env = [applescript |-> FALSE, pyautogui |-> FALSE,
                rescans |-> [i \in 1..ButtonAreas |-> "dialog"], ocr |-> "unavailable"]
    /\ k_idx = 1
    /\ k_log = <<>>
    /\ k_positions = 0
    /\ k_ret = "unset"

(***************************************************************************)
(* ClaudeCLIAutomation._activate_claude_cli_window (lines 2333-2359)       *)
(***************************************************************************)
\* reversed(claude_windows)
Reverse(s) == [i \in 1..Len(s) |-> s[Len(s) + 1 - i]]

\* lines 2340-2346: the list of find_claude_cli_windows, which is sorted by
\* creation time with the newest first (line 401), is walked in reverse
candidate_order(enum) == Reverse(find_claude_cli_windows(enum))

AwStart ==
    /\ aw_pc = "idle"
    /\ \E enum \in {e \in EnumOrders : Len(e) <= MaxWindows} :
        /\ aw_enum' = enum
        /\ \E can \in SUBSET {enum[i].pid : i \in DOMAIN enum} : aw_can' = can
    /\ \E m \in 0..MaxAttempts : aw_max_attempts' = m
    /\ aw_attempt' = 0
    /\ aw_pc' = "round"
    /\ UNCHANGED <<aw_candidates, aw_log, aw_ret>>
    /\ UNCHANGED <<cleanupVars, flowVars, termVars, kbVars, clipVars, monVars, detVars,
                   launchVars, actVars, clickVars, llmVars, pmVars>>

\* lines 2335-2340, 2355-2357: a round starts with find_claude_cli_windows;
\* an exception ends the round
AwRound ==
    /\ aw_pc = "round"
    /\ aw_attempt < aw_max_attempts
    /\ \E raises \in BOOLEAN :
        IF raises
        THEN aw_attempt' = aw_attempt + 1 /\ UNCHANGED <<aw_candidates, aw_pc>>
        ELSE /\ aw_candidates' = candidate_order(aw_enum)
             /\ aw_pc' = "candidates"
             /\ UNCHANGED aw_attempt
    /\ UNCHANGED <<aw_enum, aw_can, aw_max_attempts, aw_log, aw_ret>>
    /\ UNCHANGED <<cleanupVars, flowVars, termVars, kbVars, clipVars, monVars, detVars,
                   launchVars, actVars, clickVars, llmVars, pmVars>>

\* lines 2346-2350: activate_window_by_pid on the next window of the round
AwCandidate ==
    /\ aw_pc = "candidates"
    /\ aw_candidates # <<>>
    /\ LET pid == Head(aw_candidates).pid IN
       /\ aw_log' = Append(aw_log, pid)
       /\ IF pid \in aw_can
          THEN aw_ret' = TRUE /\ aw_pc' = "returned" /\ UNCHANGED aw_candidates
          ELSE aw_candidates' = Tail(aw_candidates) /\ UNCHANGED <<aw_ret, aw_pc>>
    /\ UNCHANGED <<aw_enum, aw_can, aw_max_attempts, aw_attempt>>
    /\ UNCHANGED <<cleanupVars, flowVars, termVars, kbVars, clipVars, monVars, detVars,
                   launchVars, actVars, clickVars, llmVars, pmVars>>

\* lines 2352-2353: no window of the round was activated
AwRoundFailed ==
    /\ aw_pc = "candidates"
    /\ aw_candidates = <<>>
    /\ aw_attempt' = aw_attempt + 1
    /\ aw_pc' = "round"
    /\ UNCHANGED <<aw_enum, aw_can, aw_max_attempts, aw_candidates, aw_log, aw_ret>>
    /\ UNCHANGED <<cleanupVars, flowVars, termVars, kbVars, clipVars, monVars, detVars,
                   launchVars, actVars, clickVars, llmVars, pmVars>>

\* line 2359
AwGiveUp ==
    /\ aw_pc = "round"
    /\ aw_attempt >= aw_max_attempts
    /\ aw_ret' = FALSE
    /\ aw_pc' = "returned"
    /\ UNCHANGED <<aw_enum, aw_can, aw_max_attempts, aw_attempt, aw_candidates, aw_log>>
    /\ UNCHANGED <<cleanupVars, flowVars, termVars, kbVars, clipVars, monVars, detVars,
                   launchVars, actVars, clickVars, llmVars, pmVars>>

ActivateWindowIdle ==
    /\ aw_pc = "idle"
    /\ aw_enum = <<>>
    /\ aw_can = {}
    /\ aw_max_attempts = 0
    /\ aw_attempt = 0
    /\ aw_candidates = <<>>
    /\ aw_log = <<>>
    /\ aw_ret = "unset"

(***************************************************************************)
(* LLMClient.invoke (backend/clients/llm_client.py, lines 113-191).  An    *)
(* error is the type of the exception and the fragments, of those that     *)
(* _should_fallback looks for, that occur in str(error).                   *)
(***************************************************************************)
\* lines 125-131: the substrings searched in the message of the error
Fragments == {"429", "quota", "rate", "500", "internal server error", "server error"}

\* exception types of the OpenAI client behind ChatOpenAI.ainvoke
ErrorTypes ==
    {"RateLimitError", "InternalServerError", "BadRequestError",
     "AuthenticationError", "APITimeoutError"}

\* the message of a RateLimitError names its status code 429; the rest of a
\* message is text of the server (token counts, request ids, explanations)
LLMErrors ==
    {e \in [type : ErrorTypes, text : SUBSET Fragments] :
        e.type = "RateLimitError" => "429" \in e.text}

Responded == [type |-> "none", text |-> {}]
NotCalled == [type |-> "not_called", text |-> {}]

\* _should_fallback (lines 113-132)
should_fallback(error) ==
    \/ "429" \in error.text
    \/ "quota" \in error.text
    \/ "rate" \in error.text
    \/ "500" \in error.text
    \/ "internal server error" \in error.text
    \/ error.type = "InternalServerError"
    \/ "server error" \in error.text

\* the caller awaits invoke(messages)
LlmInvoke ==
    /\ llm_pc = "idle"
    /\ \E p \in {Responded} \cup LLMErrors : llm_primary' = p
    /\ llm_pc' = "primary"
    /\ UNCHANGED <<llm_fallback, llm_calls, llm_ret>>
    /\ UNCHANGED <<cleanupVars, flowVars, termVars, kbVars, clipVars, monVars, detVars,
                   launchVars, actVars, clickVars, awVars, pmVars>>

\* lines 151-167, 186-191
LlmPrimary ==
    /\ llm_pc = "primary"
    /\ llm_calls' = Append(llm_calls, "primary")
    /\ IF llm_primary = Responded
       THEN llm_ret' = [kind |-> "response", of |-> "primary"] /\ llm_pc' = "done"
       ELSE IF should_fallback(llm_primary)
       THEN llm_pc' = "fallback" /\ UNCHANGED llm_ret
       ELSE llm_ret' = [kind |-> "raised", error |-> llm_primary] /\ llm_pc' = "done"
    /\ UNCHANGED <<llm_primary, llm_fallback>>
    /\ UNCHANGED <<cleanupVars, flowVars, termVars, kbVars, clipVars, monVars, detVars,
                   launchVars, actVars, clickVars, awVars, pmVars>>

\* lines 170-185: the fallback's own error is logged, primary_error is raised
LlmFallback ==
    /\ llm_pc = "fallback"
    /\ llm_calls' = Append(llm_calls, "fallback")
    /\ \E f \in {Responded} \cup LLMErrors :
        /\ llm_fallback' = f
        /\ llm_ret' = IF f = Responded THEN [kind |-> "response", of |-> "fallback"]
                      ELSE [kind |-> "raised", error |-> llm_primary]
    /\ llm_pc' = "done"
    /\ UNCHANGED llm_primary
    /\ UNCHANGED <<cleanupVars, flowVars, termVars, kbVars, clipVars, monVars, detVars,
                   launchVars, actVars, clickVars, awVars, pmVars>>

LLMIdle ==
    /\ llm_pc = "idle"
    /\ llm_primary = Responded
    /\ llm_fallback = NotCalled
    /\ llm_calls = <<>>
    /\ llm_ret = [kind |-> "unset"]

(***************************************************************************)
(* MacOSPermissionHandler.monitor_and_handle_permission_dialogs (lines     *)
(* 1108-1175).  A scan is the number of dialogs detect_permission_dialogs  *)
(* returns, or an exception; each dialog of a scan is handed to            *)
(* auto_click_allow_button, which returns True or False or raises.         *)
(***************************************************************************)
\* line 1124: check_interval = 2.0
PermissionCheckInterval == 2

\* lines 1110-1115
pm_result_init ==
    [dialogs_detected |-> 0, dialogs_handled |-> 0, dialogs_failed |-> 0,
     details |-> <<>>, message |-> "none"]

\* -1 stands for a scan that raises
ScanOutcomes == {-1} \cup 0..MaxDialogs

ClickOutcomes == {"success", "failed", "raise"}

\* mutant: a click that raises is logged and not recorded
record_click_drop_raise(res, click) ==
    CASE click = "success" ->
             [res EXCEPT !.dialogs_handled = @ + 1,
                         !.details = Append(@, [action |-> "auto_clicked"])]
      [] click = "failed" ->
             [res EXCEPT !.dialogs_failed = @ + 1,
                         !.details = Append(@, [action |-> "auto_click_failed"])]
      [] click = "raise" -> res

\* lines 1134-1164: body of the loop over the dialogs of one scan
record_click(res, click) ==
    CASE click = "success" ->
             [res EXCEPT !.dialogs_handled = @ + 1,
                         !.details = Append(@, [action |-> "auto_clicked"])]
      [] click = "failed" ->
             [res EXCEPT !.dialogs_failed = @ + 1,
                         !.details = Append(@, [action |-> "auto_click_failed"])]
      [] click = "raise" ->
             [res EXCEPT !.dialogs_failed = @ + 1,
                         !.details = Append(@, [action |-> "error"])]

\* lines 1110-1124: on another platform than macOS the call returns at once
PmStart ==
    /\ pm_pc = "idle"
    /\ \E duration \in 1..MaxScanTime : pm_duration' = duration
    /\ IF system # "darwin"
       THEN /\ pm_result' = [pm_result_init EXCEPT !.message = "macos_only"]
            /\ pm_pc' = "done"
       ELSE /\ pm_result' = pm_result_init
            /\ pm_pc' = "scan"
    /\ UNCHANGED <<pm_clock, pm_pending, pm_clicks>>
    /\ UNCHANGED <<cleanupVars, flowVars, termVars, kbVars, clipVars, monVars, detVars,
                   launchVars, actVars, clickVars, awVars, llmVars>>

\* lines 1126-1132, 1166-1170: the loop condition holds; one scan.  Without a
\* dialog, or when the scan raises, the thread sleeps check_interval
PmScan ==
    /\ pm_pc = "scan"
    /\ loop_continues(pm_clock, pm_duration)
    /\ \E scan \in ScanOutcomes :
        IF scan > 0
        THEN /\ pm_result' = [pm_result EXCEPT !.dialogs_detected = @ + scan]
             /\ pm_pending' = scan
             /\ pm_pc' = "dialogs"
             /\ UNCHANGED pm_clock
        ELSE /\ pm_clock' = pm_clock + PermissionCheckInterval
             /\ UNCHANGED <<pm_result, pm_pending, pm_pc>>
    /\ UNCHANGED <<pm_duration, pm_clicks>>
    /\ UNCHANGED <<cleanupVars, flowVars, termVars, kbVars, clipVars, monVars, detVars,
                   launchVars, actVars, clickVars, awVars, llmVars>>

\* lines 1134-1166: one dialog of the scan; after the last one the thread sleeps
PmDialog ==
    /\ pm_pc = "dialogs"
    /\ \E click \in ClickOutcomes : pm_result' = record_click(pm_result, click)
    /\ pm_clicks' = pm_clicks + 1
    /\ pm_pending' = pm_pending - 1
    /\ IF pm_pending = 1
       THEN /\ pm_clock' = pm_clock + PermissionCheckInterval
            /\ pm_pc' = "scan"
       ELSE UNCHANGED <<pm_clock, pm_pc>>
    /\ UNCHANGED pm_duration
    /\ UNCHANGED <<cleanupVars, flowVars, termVars, kbVars, clipVars, monVars, detVars,
                   launchVars, actVars, clickVars, awVars, llmVars>>

\* lines 1172-1175: the loop condition fails
PmReturn ==
    /\ pm_pc = "scan"
    /\ ~loop_continues(pm_clock, pm_duration)
    /\ pm_result' = [pm_result EXCEPT !.message = "monitoring_done"]
    /\ pm_pc' = "done"
    /\ UNCHANGED <<pm_duration, pm_clock, pm_pending, pm_clicks>>
    /\ UNCHANGED <<cleanupVars, flowVars, termVars, kbVars, clipVars, monVars, detVars,
                   launchVars, actVars, clickVars, awVars, llmVars>>

PermissionIdle ==
    /\ pm_pc = "idle"
    /\ pm_duration = 0
    /\ pm_clock = 0
    /\ pm_pending = 0
    /\ pm_clicks = 0
    /\ pm_result = pm_result_init

CompIdle ==
    /\ TerminalIdle /\ KeyboardIdle /\ ClipboardIdle /\ MonitorIdle /\ DetectorIdle
    /\ LaunchIdle /\ ActivationIdle /\ ClickIdle
    /\ ActivateWindowIdle /\ LLMIdle /\ PermissionIdle

InitCleanup == CleanupIdle /\ FlowIdle /\ CompIdle /\ system = "linux"

NextCleanup ==
    \/ CleanupStart
    \/ CleanupTerminate
    \/ CleanupFinish

SpecCleanup == InitCleanup /\ [][NextCleanup]_vars

\* cleanup_old_claude_processes while processes exit and pids are reused
NextPidReuse ==
    \/ NextCleanup
    \/ PidReuse

SpecPidReuse == InitCleanup /\ [][NextPidReuse]_vars

\* open_claude_cli_with_prompt and complete_automation_workflow, on each platform
InitFlow == CleanupIdle /\ FlowIdle /\ CompIdle /\ system \in Systems

NextFlow ==
    \/ StartOpen
    \/ OpenCheckFile
    \/ OpenLaunch
    \/ OpenActivate
    \/ OpenCopy
    \/ OpenVerifyClipboard
    \/ OpenFocus
    \/ OpenPasteRightClick
    \/ OpenPasteStandard
    \/ OpenPastePynput
    \/ OpenPasteDone
    \/ OpenSubmit
    \/ OpenReturn
    \/ OpenExcept
    \/ StartWorkflow
    \/ WfCleanup
    \/ WfPermissionMonitor
    \/ WfSend
    \/ WfAfterSend
    \/ WfMonitor
    \/ WfFinal
    \/ WfExcept

SpecFlow == InitFlow /\ [][NextFlow]_vars

\* every started call runs on until it returns
FairSpecFlow == SpecFlow /\ WF_vars(NextFlow)

\* calls of the workflows one after the other, with the permission monitor
\* threads they leave behind
NextThreads ==
    \/ NextFlow
    \/ PermissionMonitorExit
    \/ CallAgain

SpecThreads == InitFlow /\ [][NextThreads]_vars

\* the workflows under a concurrent writer of the system clipboard
NextSharedClipboard ==
    \/ NextFlow
    \/ ExternalClipboardWrite

SpecSharedClipboard == InitFlow /\ [][NextSharedClipboard]_vars

\* the workflows with the input events of the permission monitor threads
NextWatcher ==
    \/ NextThreads
    \/ PermissionMonitorClick

SpecWatcher == InitFlow /\ [][NextWatcher]_vars

\* the three public workflows, complete_workflow_with_cleanup included
NextWorkflows ==
    \/ NextFlow
    \/ StartWithCleanup
    \/ WcTerminals
    \/ WcClaude
    \/ WcAutomation
    \/ WcFinal
    \/ WcExcept

SpecWorkflows == InitFlow /\ [][NextWorkflows]_vars

\* both process cleanups, one call at a time, on each platform
NextBatch ==
    \/ tpc = "idle" /\ CleanupStart
    \/ CleanupTerminate
    \/ CleanupFinish
    \/ cpc = "idle" /\ TerminalStart
    \/ TerminalTerminate
    \/ TerminalFinish

\* on macOS, where the terminal cleanup also sends the close-window keystroke
InitBatch == CleanupIdle /\ FlowIdle /\ CompIdle /\ system = "darwin"

SpecBatch == InitBatch /\ [][NextBatch]_vars

\* send_paste_command and send_enter, on each platform
NextKeyboard ==
    \/ KbStart
    \/ KbAttempt
    \/ KbGiveUp

SpecKeyboard == InitFlow /\ [][NextKeyboard]_vars

\* two copy_to_clipboard calls with one text, each followed by a verification
NextClipboard ==
    \/ ClipStart
    \/ ClipBackend
    \/ ClipGiveUp
    \/ ClipVerify
    \/ ClipSecondCall

SpecClipboard == InitFlow /\ [][NextClipboard]_vars

\* monitor_for_prompts; it does not read self.system
InitMonitor == CleanupIdle /\ FlowIdle /\ CompIdle /\ system = "linux"

NextMonitor ==
    \/ MonStart
    \/ MonPoll
    \/ MonTimeout

SpecMonitor == InitMonitor /\ [][NextMonitor]_vars

\* the call keeps running until it returns
FairSpecMonitor == SpecMonitor /\ WF_vars(NextMonitor)

\* detect_yes_proceed_options, on each platform
NextDetector ==
    \/ DetStart
    \/ DetRun
    \/ DetNone

SpecDetector == InitFlow /\ [][NextDetector]_vars

\* launch_claude_cli on each platform
NextLaunch ==
    \/ LaunchStart
    \/ LaunchSpawn
    \/ LaunchNoTerminal

SpecLaunch == InitFlow /\ [][NextLaunch]_vars

\* activate_window_by_pid on each platform
NextActivation ==
    \/ ActivateStart
    \/ ActivateMethod
    \/ ActivateGiveUp

SpecActivation == InitFlow /\ [][NextActivation]_vars

\* auto_click_allow_button on each platform
NextClick ==
    \/ ClickStart
    \/ ClickMethod
    \/ ClickGiveUp

SpecClick == InitFlow /\ [][NextClick]_vars

\* _activate_claude_cli_window on its own
NextActivateWindow ==
    \/ AwStart
    \/ AwRound
    \/ AwCandidate
    \/ AwRoundFailed
    \/ AwGiveUp

SpecActivateWindow == InitFlow /\ [][NextActivateWindow]_vars

\* LLMClient.invoke, one call
NextLLM ==
    \/ LlmInvoke
    \/ LlmPrimary
    \/ LlmFallback

SpecLLM == InitFlow /\ [][NextLLM]_vars

\* monitor_and_handle_permission_dialogs, one call on each platform
NextPermission ==
    \/ PmStart
    \/ PmScan
    \/ PmDialog
    \/ PmReturn

SpecPermission == InitFlow /\ [][NextPermission]_vars

\* the thread keeps running and every call it makes returns
FairSpecPermission == SpecPermission /\ WF_vars(NextPermission)

(***************************************************************************)
(* Properties                                                              *)
(***************************************************************************)
OpenReturned == "open" \in returned
SentEnter == "send_enter" \in Range(trace)
PasteInjected == Range(trace) \cap PasteTags # {}
AllPasteMethodsFailed == "pynput_paste" \in Range(trace) /\ ~locals.paste_success

\* C1: in open_claude_cli_with_prompt Enter is injected only if the paste step
\* reported paste_verified = true; when every paste method failed, send_enter
\* is not called and the returned report has enter_success = false and an
\* empty Enter-method list.
C1_EnterOnlyAfterVerifiedPaste ==
    /\ SentEnter => (locals.paste_success /\ locals.paste_verified)
    /\ (OpenReturned /\ AllPasteMethodsFailed) =>
          /\ ~SentEnter
          /\ send_result.status = "success"
          /\ send_result.enter_success = FALSE
          /\ send_result.methods_used.enter_methods = <<>>

C1_Witness ==
    /\ OpenReturned
    /\ AllPasteMethodsFailed
    /\ ~SentEnter
    /\ send_result.status = "success"
    /\ send_result.methods_used.enter_methods = <<>>

\* C2: when launch, activation, clipboard copy and verify, paste through one
\* backend and Enter all succeed, the returned report has status "success" and
\* its paste-method list is exactly the backend that succeeded.
C2_AllSucceedReportsSuccess ==
    (/\ OpenReturned
     /\ "launch" \in Range(trace)
     /\ locals.activation_success
     /\ locals.copy_success
     /\ locals.clipboard_verified
     /\ locals.paste_success
     /\ Len(locals.paste_methods_tried) = 1
     /\ locals.enter_success)
    => /\ send_result.status = "success"
       /\ send_result.methods_used.paste_methods = locals.paste_methods_tried

\* C3: if the paste injection reports success but the text did not land in the
\* target input, paste_verified is false and Enter is not sent.
C3_UnverifiedPasteBlocksEnter ==
    (OpenReturned /\ locals.paste_success /\ ~text_landed)
    => (~locals.paste_verified /\ ~SentEnter)

\* C4: if copy_to_clipboard fails, no paste keystroke and no Enter is injected
\* and the returned report lists the manual paste step and the manual
\* press-Enter step.
C4_ClipboardFailure ==
    ("clipboard_copy" \in Range(trace) /\ ~locals.copy_success)
    => /\ ~PasteInjected
       /\ ~SentEnter
       /\ OpenReturned =>
             /\ send_result.status = "error"
             /\ {"paste", "press_enter"} \subseteq Range(send_result.fallback_instructions)

C4_Witness ==
    /\ OpenReturned
    /\ "clipboard_copy" \in Range(trace)
    /\ ~locals.copy_success
    /\ send_result.message = "copy_failed"
    /\ "paste" \in Range(send_result.fallback_instructions)

TopReport ==
    IF entry = "open" THEN send_result
    ELSE IF entry = "workflow" THEN workflow_results
    ELSE wc_result

\* C5: open_claude_cli_with_prompt and complete_automation_workflow always
\* reach their return with a report that has a status, and never raise, for
\* every combination of failures of activation, clipboard, focus, paste,
\* Enter, monitoring and cleanup.
C5_AlwaysReturnsReport ==
    (entry \in {"open", "workflow"})
    ~> (pc = "returned" /\ ~raised /\ TopReport.status \notin {"unset", "started"})

C5_Witness ==
    /\ entry = "workflow"
    /\ pc = "returned"
    /\ ~raised
    /\ ~locals.activation_success
    /\ ~locals.focus_ready
    /\ AllPasteMethodsFailed
    /\ monitor_result.status = "error"
    /\ workflow_results.status = "partial_success"

\* C6 (as claimed): given a prompt file that does not exist,
\* open_claude_cli_with_prompt raises to the caller instead of returning a
\* report, and launches no process and injects no input.
C6_MissingFileRaises ==
    (entry = "open" /\ ~file_exists /\ pc = "returned")
    => (raised /\ ~OpenReturned /\ trace = <<>>)

\* C6 (amended): given a prompt file that does not exist,
\* open_claude_cli_with_prompt does not raise: its except clause returns a
\* report with status "error" and the manual fallback instructions; it
\* launches no process and injects no input.
C6_MissingFileReturnsErrorReport ==
    (entry \in {"open", "workflow"} /\ ~file_exists)
    => /\ trace = <<>>
       /\ ~raised
       /\ OpenReturned =>
             /\ send_result.status = "error"
             /\ send_result.message = "file_not_found"
             /\ {"click_window", "paste", "press_enter"}
                    \subseteq Range(send_result.fallback_instructions)

C6_Witness ==
    /\ entry = "open"
    /\ pc = "returned"
    /\ ~file_exists
    /\ ~raised
    /\ send_result.status = "error"
    /\ send_result.message = "file_not_found"

SpecStatuses == {"success", "partial_success", "failed"}

\* C7 (as claimed): the status of every report returned by
\* open_claude_cli_with_prompt, complete_automation_workflow and
\* complete_workflow_with_cleanup is one of success, partial_success, failed.
C7_StatusInSpecSet ==
    /\ OpenReturned => send_result.status \in SpecStatuses
    /\ "workflow" \in returned => workflow_results.status \in SpecStatuses
    /\ "with_cleanup" \in returned => wc_result.status \in SpecStatuses

\* C7 (amended): the status returned by open_claude_cli_with_prompt is success
\* or error; by complete_automation_workflow one of success,
\* success_no_action_needed, success_no_prompts, partial_success,
\* failed_at_send, error; by complete_workflow_with_cleanup one of success,
\* partial_success, error.
C7_StatusVocabulary ==
    /\ OpenReturned => send_result.status \in {"success", "error"}
    /\ "workflow" \in returned =>
          workflow_results.status \in
              {"success", "success_no_action_needed", "success_no_prompts",
               "partial_success", "failed_at_send", "error"}
    /\ "with_cleanup" \in returned =>
          wc_result.status \in {"success", "partial_success", "error"}

C7_Witness ==
    /\ "with_cleanup" \in returned
    /\ wc_result.status = "partial_success"
    /\ workflow_results.status = "failed_at_send"
    /\ send_result.status = "error"

DistinctTimes(s) ==
    \A i, j \in 1..Len(s) : i # j => s[i].create_time # s[j].create_time

\* C8: for N matching processes with distinct creation times,
\* cleanup_old_claude_processes(keep_newest=k) retains exactly the k newest and
\* selects exactly the other N-k for termination; when N <= k nothing is
\* terminated and all N are retained.
C8_KeepsNewest ==
    (cpc = "done" /\ DistinctTimes(enum_order))
    => LET all == Range(enum_order)
           kept == Range(result.kept_processes)
           N == Len(enum_order)
       IN /\ kept \subseteq all
          /\ Len(result.kept_processes) = Min(keep_newest, N)
          /\ Cardinality(kept) = Min(keep_newest, N)
          /\ \A p \in kept, q \in all \ kept : p.create_time > q.create_time
          /\ IF N <= keep_newest
             THEN term_log = <<>> /\ result.cleaned_processes = <<>>
             ELSE /\ Range(processes_to_clean) = all \ kept
                  /\ Len(processes_to_clean) = N - keep_newest
                  /\ Range(result.cleaned_processes) \subseteq all \ kept
          /\ \A e \in Range(term_log) : \A p \in kept : e[1] # p.pid

C8_Witness ==
    /\ cpc = "done"
    /\ Len(enum_order) = MaxProcs
    /\ DistinctTimes(enum_order)
    /\ enum_order[1].create_time = 1
    /\ keep_newest = 1
    /\ result.kept_processes[1].create_time = MaxProcs
    /\ Len(result.cleaned_processes) = MaxProcs - 1

\* C9 (as claimed): after cleanup_old_claude_processes returns over N
\* enumerated processes, len(kept_processes) + len(cleaned_processes) = N for
\* every outcome of the individual terminations.
C9_KeptPlusCleanedIsN ==
    cpc = "done"
    => Len(result.kept_processes) + Len(result.cleaned_processes) = Len(enum_order)

\* C9 (amended): after cleanup_old_claude_processes returns over N enumerated
\* processes, len(kept_processes) + len(cleaned_processes) + len(errors) = N:
\* a process whose termination failed is recorded in errors and in neither
\* other list.
C9_KeptCleanedErrorsIsN ==
    cpc = "done"
    => /\ Len(result.kept_processes) + Len(result.cleaned_processes)
              + Len(result.errors) = Len(enum_order)
       /\ \A i \in 1..Len(result.errors) :
              \A p \in Range(result.kept_processes) \cup Range(result.cleaned_processes) :
                  p.pid # result.errors[i].pid

C9_Witness ==
    /\ cpc = "done"
    /\ Len(result.errors) >= 1
    /\ Len(result.cleaned_processes) >= 1
    /\ Len(result.kept_processes) = 1
    /\ \E i \in 1..Len(result.errors) : result.errors[i].error = "kill_timeout"

\* the processes cleanup would retain had the OS enumerated them in order o
KeptFor(o, k) == Range(SubSeq(find_claude_cli_windows(o), 1, Min(k, Len(o))))

BatchComplete(to_clean, res, log) ==
    \A i \in 1..Len(to_clean) :
        LET pid == to_clean[i].pid IN
        /\ <<pid, "lookup">> \in Range(log)
        /\ Cardinality({j \in 1..Len(res.errors) : res.errors[j].pid = pid})
             + Cardinality({j \in 1..Len(res.cleaned_processes) :
                               res.cleaned_processes[j].pid = pid}) = 1

\* C11: in cleanup_old_claude_processes and cleanup_old_terminal_processes a
\* failure to terminate one process is recorded as one entry in errors and
\* does not abort the batch: every other selected process is still attempted,
\* and the call returns its report.
C11_FailuresDoNotAbortBatch ==
    /\ cpc = "done" =>
          /\ BatchComplete(processes_to_clean, result, term_log)
          /\ Len(enum_order) > keep_newest => result.kept_processes = processes_to_keep
    /\ tpc = "done" =>
          /\ BatchComplete(t_to_clean, t_result, t_log)
          /\ Len(terminal_processes) > t_max_terminals
                 => t_result.kept_processes = t_to_keep

C11_Witness ==
    /\ tpc = "done"
    /\ Len(t_to_clean) = MaxProcs
    /\ Len(t_result.errors) = 2
    /\ t_result.errors[1].pid = t_to_clean[1].pid
    /\ t_result.errors[1].error = "access_denied"
    /\ t_result.errors[2].error = "no_such_process"
    /\ Len(t_result.cleaned_processes) = MaxProcs - 2

\* C12: for each process selected by cleanup_old_claude_processes, kill() is
\* issued only after terminate() was issued on it and the wait for its exit
\* timed out; a process that exits within the graceful wait is never killed;
\* retained processes receive neither terminate() nor kill().
C12_KillOnlyAfterGracefulTimeout ==
    /\ \A i \in 1..Len(term_log) :
          LET pid == term_log[i][1] IN
          /\ term_log[i][2] = "kill" =>
                /\ i >= 3
                /\ term_log[i - 1] = <<pid, "wait_timeout">>
                /\ term_log[i - 2] = <<pid, "terminate">>
          /\ (term_log[i][2] = "wait_ok" /\ i >= 2 /\ term_log[i - 1] = <<pid, "terminate">>)
                => <<pid, "kill">> \notin Range(term_log)
    /\ \A i \in 1..Len(processes_to_keep) :
          /\ <<processes_to_keep[i].pid, "terminate">> \notin Range(term_log)
          /\ <<processes_to_keep[i].pid, "kill">> \notin Range(term_log)
    /\ cpc = "done" =>
          \A p \in Range(result.kept_processes) :
              \A e \in Range(term_log) : e[1] = p.pid => e[2] \notin {"terminate", "kill"}

C12_Witness ==
    /\ cpc = "done"
    /\ Len(processes_to_keep) = 1
    /\ Len(processes_to_clean) = 2
    /\ <<processes_to_clean[1].pid, "kill">> \in Range(term_log)
    /\ <<processes_to_clean[2].pid, "wait_ok">> \in Range(term_log)
    /\ <<processes_to_clean[2].pid, "kill">> \notin Range(term_log)

KbBackendsTried == [i \in 1..Len(kb_log) |-> kb_log[i].backend]
PasteGaveUp == kb_pc = "done" /\ kb_op = "paste" /\ kb_ret = "false"

\* C13 (as claimed): send_paste_command, when every backend fails, has tried
\* every configured backend exactly once, in the configured order, before it
\* returns false, for every max_attempts value.
C13_AllBackendsTriedForEveryMaxAttempts ==
    PasteGaveUp => KbBackendsTried = PasteBackendOrder(system)

\* C13 (amended): send_paste_command(max_attempts), when every backend it
\* invokes fails, has invoked the first min(max_attempts, 3) backends of the
\* configured order, each exactly once and in order, before it returns false;
\* all three are tried exactly when max_attempts >= 3.
C13_FirstBackendsTriedInOrder ==
    PasteGaveUp =>
        LET order == PasteBackendOrder(system) IN
        /\ KbBackendsTried = SubSeq(order, 1, Min(kb_max_attempts, Len(order)))
        /\ KbBackendsTried = order <=> kb_max_attempts >= Len(order)
        /\ \A i \in 1..Len(kb_log) : kb_log[i].outcome # "ok"

C13_Witness ==
    /\ PasteGaveUp
    /\ system = "darwin"
    /\ kb_max_attempts = MaxAttempts
    /\ Len(kb_log) = 3
    /\ kb_log[3] = [backend |-> "applescript_cmd_v", outcome |-> "nonzero"]

\* C14: send_paste_command and send_enter each perform at most max_attempts
\* injection attempts, none after one succeeded, and return false without
\* raising when the backend of every attempt raises.
C14_BoundedAttempts ==
    /\ Len(kb_log) <= kb_max_attempts
    /\ \A i \in 1..Len(kb_log) : kb_log[i].outcome = "ok" => i = Len(kb_log)
    /\ kb_pc = "done" =>
          /\ kb_ret \in {"true", "false"}
          /\ kb_ret = "true" <=>
                 (kb_log # <<>> /\ kb_log[Len(kb_log)].outcome = "ok")
          /\ (\A i \in 1..Len(kb_log) : kb_log[i].outcome = "raise") => kb_ret = "false"
    /\ kb_pc # "done" => kb_ret = "none"

C14_Witness ==
    /\ kb_pc = "done"
    /\ kb_op = "enter"
    /\ kb_max_attempts = 3
    /\ Len(kb_log) = 3
    /\ \A i \in 1..3 : kb_log[i].outcome = "raise"
    /\ kb_ret = "false"

\* the content read back is the text, compared on the first characters,
\* ignoring case and surrounding whitespace
ReadBackMatches(text, content) ==
    /\ content # <<>>
    /\ Lower(Strip(Slice(content, CopyVerifyPrefix)))
           = Lower(Strip(Slice(text, CopyVerifyPrefix)))

\* C15: copy_to_clipboard tries its backends in the fixed order, tries no
\* later backend once one has succeeded, returns true (for a non-blank text)
\* only if the read-back after that backend's write matched the prefix of the
\* text, and returns false only after all applicable backends failed.
C15_CopyVerifiedByReadBack ==
    /\ [i \in 1..Len(clip_log) |-> clip_log[i].backend]
           = SubSeq(ClipBackendOrder(system), 1, Len(clip_log))
    /\ \A i \in 1..Len(clip_log) : clip_log[i].succeeded => i = Len(clip_log)
    /\ clip_pc = "returned" =>
          LET ret == clip_rets[Len(clip_rets)] IN
          /\ (ret = "true" /\ Strip(clip_text) # <<>>) =>
                /\ clip_log # <<>>
                /\ clip_log[Len(clip_log)].succeeded
                /\ ReadBackMatches(clip_text, clipboard)
          /\ ret = "false" =>
                /\ Len(clip_log) = Len(ClipBackendOrder(system))
                /\ \A i \in 1..Len(clip_log) : ~clip_log[i].succeeded

\* C16: for every (non-blank) text, with working clipboard backends and no
\* other clipboard writer, two sequential copy_to_clipboard(text) calls each
\* return true and each is followed by a passing verification of the text.
C16_TwoCopiesBothPass ==
    (clip_pc = "done" /\ ~clip_faulty /\ Strip(clip_text) # <<>>)
    => /\ clip_rets = <<"true", "true">>
       /\ clip_verifs = <<TRUE, TRUE>>

MonitorBounded ==
    /\ mon_clock = mon_tick * check_interval
    /\ mon_clock <= duration_seconds + check_interval
    /\ mon_clock > 0 => mon_clock < duration_seconds + check_interval
    /\ mon_pc = "done" =>
          /\ mon_report.status \in {"found", "timeout"}
          /\ mon_report.status = "found" =>
                 (mon_fired_at = mon_tick /\ mon_clock < duration_seconds)
          /\ mon_report.status = "timeout" =>
                 (mon_fired_at = -1 /\ mon_clock >= duration_seconds)

\* C17: monitor_for_prompts always terminates with status found or timeout:
\* it polls once per interval, stops at the first poll at which a detection
\* fires or once the duration has elapsed, and returns no later than
\* duration + interval after it started, also when capture or detection
\* raises on every poll.
C17_MonitorTerminatesInTime ==
    /\ []MonitorBounded
    /\ (mon_pc = "loop") ~> (mon_pc = "done" /\ mon_report.status \in {"found", "timeout"})

C17_Witness ==
    /\ mon_pc = "done"
    /\ mon_report.status = "timeout"
    /\ duration_seconds = 5
    /\ check_interval = 2
    /\ mon_tick = 3
    /\ mon_errors = mon_tick
    /\ mon_clock = 6

\* C18: if the detector first fires at poll tick t (t * interval < duration),
\* monitor_for_prompts returns status found with elapsed time in
\* [t * interval, t * interval + interval]; for duration 10, interval 2 and
\* tick 2 the elapsed time is in [4, 6].
C18_FoundAtFiringTick ==
    mon_fired_at # -1 =>
        /\ mon_fired_at * check_interval < duration_seconds
        /\ mon_pc = "done"
        /\ mon_report.status = "found"
        /\ mon_report.time_taken >= mon_fired_at * check_interval
        /\ mon_report.time_taken <= mon_fired_at * check_interval + check_interval
        /\ (duration_seconds = 10 /\ check_interval = 2 /\ mon_fired_at = 2)
              => mon_report.time_taken \in 4..6

C18_Witness ==
    /\ mon_pc = "done"
    /\ duration_seconds = 10
    /\ check_interval = 2
    /\ mon_fired_at = 2
    /\ mon_report.status = "found"
    /\ mon_report.time_taken = 4

PreciseDetectors == {"OCR", "macOS Vision", "Template Matching"}

\* C19: detect_yes_proceed_options returns found = true only when a precise
\* detector (OCR, Vision or template matching) matched; the pattern heuristic
\* alone never produces found = true.
C19_FoundOnlyByPreciseDetector ==
    (det_pc = "done" /\ det_result.found)
    => /\ det_result.detection_method \in PreciseDetectors
       /\ \E i \in 1..Len(det_log) :
              det_log[i].found /\ det_log[i].detector \in PreciseDetectors

DetectorOrder == <<"OCR", "macOS Vision", "Template Matching", "Pattern Analysis">>

DetectorAvailable(detector) ==
    CASE detector = "OCR" -> ocr_available
      [] detector = "macOS Vision" -> system = "darwin" /\ macos_libs_available
      [] OTHER -> TRUE

\* C20: detect_yes_proceed_options runs its detectors in the order OCR,
\* Vision, template matching, pattern analysis (skipping unavailable ones),
\* returns the result of the first detector with a positive match, named in
\* detection_method, runs no detector after it, and returns found = false
\* with no method if none matches or if the capture raises.
C20_FirstPositiveDetectorWins ==
    LET expected == SelectSeq(DetectorOrder, DetectorAvailable)
        last == det_log[Len(det_log)]
    IN /\ [i \in 1..Len(det_log) |-> det_log[i].detector]
              = SubSeq(expected, 1, Len(det_log))
       /\ \A i \in 1..Len(det_log) : det_log[i].found => i = Len(det_log)
       /\ det_pc = "done" =>
             IF det_log # <<>> /\ last.found
             THEN /\ det_result.found
                  /\ det_result.detection_method = last.detector
                  /\ det_result.suggested_action = suggested_action_of(last.detector)
             ELSE /\ ~det_result.found
                  /\ det_result.detection_method = "None"
                  /\ \/ det_capture = "raise" /\ det_log = <<>>
                     \/ Len(det_log) = Len(expected)

C20_Witness ==
    /\ det_pc = "done"
    /\ system = "darwin"
    /\ Len(det_log) = 4
    /\ det_log[1] = [detector |-> "OCR", found |-> FALSE]
    /\ det_result.found
    /\ det_result.detection_method = "Pattern Analysis"

\* C21: at most one permission monitor thread is alive at any time, and once
\* complete_automation_workflow has returned the thread it started is no
\* longer alive (also after an early return at the send step, and when the
\* workflow is called again)
C21_OneWatcherStoppedAtReturn ==
    /\ watcher <= 1
    /\ (pc = "returned" /\ entry = "workflow") => watcher = 0

\* C22: the report complete_automation_workflow returns on macOS holds the
\* finished outcome of the permission monitor, not only the "started" record
C22_WatcherReportCollected ==
    (/\ pc = "returned"
     /\ entry = "workflow"
     /\ "workflow" \in returned
     /\ system = "darwin")
    => /\ "permission_monitor" \in DOMAIN workflow_results.steps
       /\ workflow_results.steps.permission_monitor.status # "started"

\* the manual-remediation list of a report of open_claude_cli_with_prompt:
\* next_manual_steps of a completed run, fallback_instructions of the report
\* built by the except clause
ManualSteps(report) ==
    IF "next_manual_steps" \in DOMAIN report THEN Range(report.next_manual_steps)
    ELSE IF "fallback_instructions" \in DOMAIN report
    THEN Range(report.fallback_instructions)
    ELSE {}

\* C23: when window activation failed (and the copy succeeded), the run went
\* on to the paste and, if the paste was verified, to Enter, and the returned
\* report records window_activation_success = false and lists the manual
\* window-activation step
C23_ActivationFailureIsSoft ==
    (/\ OpenReturned
     /\ "launch" \in Range(trace)
     /\ ~locals.activation_success
     /\ locals.copy_success)
    => /\ PasteInjected
       /\ locals.paste_verified => SentEnter
       /\ "window_activation_success" \in DOMAIN send_result
       /\ send_result.window_activation_success = FALSE
       /\ "click_window" \in ManualSteps(send_result)

\* launch_claude_cli has been called and returned no process
LaunchFailed ==
    /\ file_exists
    /\ "launch" \notin Range(trace)
    /\ pc \notin {"idle", "w_cleanup", "w_permission", "w_send", "o_check_file", "o_launch"}

\* C24: when launch_claude_cli returns no process, open_claude_cli_with_prompt
\* performs no activation, clipboard write, paste or Enter and returns a report
\* with status "error" that carries the launch failure, and
\* complete_automation_workflow then returns without the monitoring step
C24_LaunchFailureIsFatal ==
    LaunchFailed
    => /\ trace = <<>>
       /\ ~raised
       /\ OpenReturned =>
             /\ send_result.status = "error"
             /\ send_result.message = "launch_failed"
       /\ "workflow" \in returned =>
             /\ workflow_results.status = "failed_at_send"
             /\ "monitor_response" \notin DOMAIN workflow_results.steps

C24_Witness ==
    /\ LaunchFailed
    /\ entry = "workflow"
    /\ "workflow" \in returned
    /\ send_result.message = "launch_failed"
    /\ workflow_results.status = "failed_at_send"

\* the terminal commands that subprocess.Popen would spawn
Spawnable == {i \in DOMAIN l_env : l_env[i] = "spawned"}

\* C25: launch_claude_cli tries the terminal commands in their listed order and
\* returns the first that spawns, going on to the next command whenever one
\* fails to spawn for whatever reason; it returns None only when every command
\* failed
C25_FirstSpawningCandidateReturned ==
    l_pc = "returned"
    => IF Spawnable = {}
       THEN l_ret = "None" /\ l_log = TerminalCommands(system)
       ELSE LET first == CHOOSE i \in Spawnable : \A j \in Spawnable : i <= j IN
            /\ l_ret = TerminalCommands(system)[first]
            /\ l_log = SubSeq(TerminalCommands(system), 1, first)

\* C26: activate_window_by_pid returns a boolean and never raises, whatever
\* the methods do; it runs its methods in order and returns false only if all
\* of them failed: a method that fails or raises does not keep the later
\* methods from being run
C26_ActivationTriesEveryMethod ==
    a_pc = "returned"
    => /\ a_ret \in BOOLEAN
       /\ a_ret = (\E i \in DOMAIN a_env : a_env[i] = "ok")
       /\ ~a_ret => \A i \in DOMAIN a_env :
                       a_env[i] # "unavailable" => ActivationMethods(system)[i] \in Range(a_log)

\* what the environment makes of each click method when it is run
ClickWouldSucceed(method) ==
    CASE method = "applescript_click" -> k_env.applescript
      [] method = "pyautogui_click" ->
             k_env.pyautogui /\ \E i \in 1..ButtonAreas : k_env.rescans[i] = "no_dialog"
      [] OTHER -> k_env.ocr = "clicked"

\* C27: auto_click_allow_button runs the AppleScript click, the coordinate
\* estimate and the OCR click in this order and stops at the first that
\* succeeds; the coordinate estimate succeeds only if the re-scan after its
\* click found no dialog; on another platform than macOS nothing is clicked
\* and false is returned
C27_ClickChain ==
    k_pc = "returned"
    => /\ k_ret \in BOOLEAN
       /\ system # "darwin" => (~k_ret /\ k_log = <<>> /\ k_positions = 0)
       /\ system = "darwin" =>
             /\ k_log = SubSeq(ClickMethods, 1, Len(k_log))
             /\ \A i \in 1..(Len(k_log) - 1) : ~ClickWouldSucceed(k_log[i])
             /\ k_ret = (k_log # <<>> /\ ClickWouldSucceed(k_log[Len(k_log)]))
             /\ ~k_ret => Len(k_log) = IF k_env.ocr = "unavailable" THEN 2 ELSE 3
       /\ (k_ret /\ k_log[Len(k_log)] = "pyautogui_click") =>
             /\ k_positions \in 1..ButtonAreas
             /\ k_env.rescans[k_positions] = "no_dialog"

C27_Witness ==
    /\ k_pc = "returned"
    /\ system = "darwin"
    /\ k_ret = TRUE
    /\ k_log = <<"applescript_click", "pyautogui_click">>
    /\ k_positions = 2
    /\ k_env.rescans[1] = "dialog"

\* C28: in every report of open_claude_cli_with_prompt (of a run whose
\* clipboard copy succeeded) the manual-remediation list holds the
\* window-activation step iff activation failed, the paste step iff the paste
\* failed, and the press-Enter step iff Enter was not successfully sent
C28_ManualStepsMatchFailures ==
    (OpenReturned /\ locals.copy_success)
    => /\ ("click_window" \in ManualSteps(send_result)) = ~locals.activation_success
       /\ ("paste" \in ManualSteps(send_result)) = ~locals.paste_success
       /\ ("press_enter" \in ManualSteps(send_result)) = ~locals.enter_success

\* C29: when the send step of complete_automation_workflow has submitted the
\* prompt with Enter, the monitoring step has been executed by the time the
\* workflow returns
C29_MonitoringFollowsSubmit ==
    (/\ entry = "workflow"
     /\ "workflow" \in returned
     /\ SentEnter
     /\ locals.enter_success)
    => "monitor_response" \in DOMAIN workflow_results.steps

\* C30: when verify_clipboard_content failed after a successful copy, no paste
\* keystroke and no Enter is injected
C30_UnverifiedClipboardBlocksPaste ==
    (/\ locals.copy_success
     /\ pc # "o_verify_clip"
     /\ ~locals.clipboard_verified)
    => (~PasteInjected /\ ~SentEnter)

\* the compared samples of the two texts have something in common: one of
\* them occurs in the other (in particular as its leading characters)
SamplesRelated(text, content) ==
    LET expected_sample == Lower(Strip(Slice(text, ClipVerifySample)))
        current_sample == Lower(Strip(Slice(content, ClipVerifySample)))
    IN IsIn(expected_sample, current_sample) \/ IsIn(current_sample, expected_sample)

\* C31: verify_clipboard_content(expected) returns true only if the clipboard
\* content matches expected on the compared characters, ignoring case and
\* surrounding whitespace; unrelated content is not accepted, whatever its
\* length, and an empty clipboard gives false
C31_VerifyRejectsUnrelatedContent ==
    clip_pc \in {"again", "done"}
    => /\ clip_verifs[Len(clip_verifs)] => SamplesRelated(clip_text, clipboard)
       /\ clipboard = <<>> => ~clip_verifs[Len(clip_verifs)]

\* the monitoring step of the workflow has come back
MonitorHandled == "monitor" \in DOMAIN monitor_result

\* C32: monitor_and_handle_claude_prompts injects Enter at most once, and only
\* when the monitor found a prompt whose suggested action is press_enter or
\* check_and_enter and the window activation returned true; on a timeout,
\* another suggested action or a failed activation it injects no key, and it
\* returns a report with a status in every case
C32_EnterOnlyForActivatedPrompt ==
    MonitorHandled
    => /\ Cardinality({i \in DOMAIN trace : trace[i] = "monitor_send_enter"}) <= 1
       /\ ("monitor_send_enter" \in Range(trace)) =
              (/\ monitor_result.monitor = "found"
               /\ monitor_result.suggested_action \in {"press_enter", "check_and_enter"}
               /\ monitor_result.window_activated)
       /\ monitor_result.status \in
              {"handled", "partial_success", "detection_only", "detected_no_action",
               "no_prompts_detected", "error"}
       /\ ~raised

C32_Witness ==
    /\ MonitorHandled
    /\ monitor_result.status = "handled"
    /\ monitor_result.suggested_action = "check_and_enter"
    /\ "monitor_send_enter" \in Range(trace)

\* C33: activate_terminal_for_claude returns true only if a terminal window
\* was selected: when the script reports no_windows, the prompt handling on
\* macOS has no activated window and sends no Enter
C33_NoTerminalWindowNoEnter ==
    (/\ MonitorHandled
     /\ system = "darwin"
     /\ monitor_result.monitor = "found"
     /\ monitor_result.suggested_action \in {"press_enter", "check_and_enter"}
     /\ monitor_result.activation = "no_windows")
    => /\ ~monitor_result.window_activated
       /\ "monitor_send_enter" \notin Range(trace)

\* C34: when several matching processes with different creation times exist
\* and each can be activated, _activate_claude_cli_window activates the most
\* recently created one; it makes at most max_attempts rounds and returns
\* false if no candidate was activated
C34_NewestWindowActivated ==
    /\ aw_attempt <= aw_max_attempts
    /\ aw_pc = "returned" =>
          /\ aw_ret = (aw_log # <<>> /\ aw_log[Len(aw_log)] \in aw_can)
          /\ (/\ Len(aw_enum) >= 2
              /\ \A i, j \in DOMAIN aw_enum :
                     i # j => aw_enum[i].create_time # aw_enum[j].create_time
              /\ aw_can = {aw_enum[i].pid : i \in DOMAIN aw_enum}
              /\ aw_ret = TRUE)
             => \A i \in DOMAIN aw_enum :
                    aw_enum[i].pid = aw_log[Len(aw_log)] =>
                        \A j \in DOMAIN aw_enum :
                            aw_enum[j].create_time <= aw_enum[i].create_time

\* the errors for which the fallback is meant: rate limit and quota (429),
\* and server errors
EligibleError(e) == e.type \in {"RateLimitError", "InternalServerError"}

\* C35: LLMClient.invoke calls the primary model exactly once; it calls the
\* fallback model, at most once, only if the primary call raised a rate-limit,
\* quota or server error; it returns the first response obtained, and
\* otherwise raises the error of the primary call
C35_FallbackOnlyForEligibleError ==
    llm_pc = "done"
    => /\ llm_calls \in {<<"primary">>, <<"primary", "fallback">>}
       /\ "fallback" \in Range(llm_calls) =>
              (llm_primary # Responded /\ EligibleError(llm_primary))
       /\ llm_ret = IF llm_primary = Responded
                    THEN [kind |-> "response", of |-> "primary"]
                    ELSE IF llm_fallback = Responded
                    THEN [kind |-> "response", of |-> "fallback"]
                    ELSE [kind |-> "raised", error |-> llm_primary]

\* C36: monitor_for_prompts reports found only at a poll at which the lower
\* screen region differs from the previous capture: never on its first poll,
\* and a screen that stays unchanged for the whole monitoring window (a prompt
\* already on it included) ends in status timeout
C36_FoundOnlyAfterScreenChange ==
    mon_pc = "done"
    => /\ mon_report.status = "found" =>
              /\ mon_tick >= 1
              /\ last_screenshot = "shot"
              /\ mon_max_diff > 0
       /\ mon_max_diff = 0 => mon_report.status = "timeout"

C36_Witness ==
    /\ mon_pc = "done"
    /\ mon_report.status = "timeout"
    /\ mon_max_diff = 0
    /\ mon_errors = 0
    /\ mon_tick >= 3

\* C37: between the focus step and the Enter of the main thread the permission
\* monitor thread injects no input event: no click of the watcher lies between
\* the focus probe and the Enter of one run of open_claude_cli_with_prompt
C37_NoWatcherInputInsideSequence ==
    \A i, j, k \in DOMAIN trace :
        (i < j /\ j < k /\ trace[i] = "focus_probe" /\ trace[k] = "send_enter")
        => trace[j] # "watcher_click"

\* the clipboard holds the payload when trace[k] is injected: the last write
\* to it before k is the copy of open_claude_cli_with_prompt
ClipboardHeldPayloadAt(k) ==
    \E i \in 1..(k - 1) :
        /\ trace[i] = "clipboard_copy"
        /\ \A j \in (i + 1)..(k - 1) : trace[j] # "clipboard_overwrite"

\* C38: under a concurrent clipboard writer, whenever
\* open_claude_cli_with_prompt submits with Enter the clipboard held the
\* payload when the paste keystroke was injected: an overwrite between the
\* copy and the paste prevents the submit
C38_OverwriteBeforePasteBlocksSubmit ==
    \A k, l \in DOMAIN trace :
        (k < l /\ trace[k] \in PasteTags /\ trace[l] = "send_enter")
        => ClipboardHeldPayloadAt(k)

\* C39: cleanup_old_claude_processes terminates only processes classified as
\* Claude CLI processes: when a selected process exits and its pid is reused by
\* an unrelated process between the enumeration and the terminate call, the
\* unrelated process is neither terminated nor killed
C39_ReusedPidNotSignalled ==
    signalled_unrelated = {}

\* the counters of the report account for every detected dialog
PermissionCountersBalanced ==
    /\ pm_result.dialogs_handled + pm_result.dialogs_failed = pm_result.dialogs_detected
    /\ Len(pm_result.details) = pm_result.dialogs_detected

\* C40: in monitor_and_handle_permission_dialogs, after every scan cycle and
\* at return, dialogs_handled + dialogs_failed = dialogs_detected and details
\* holds one entry per detected dialog, also when a click raises; no scan
\* starts once duration_seconds has elapsed and the call returns; on another
\* platform than macOS it returns at once with all counters 0 and no click
C40_PermissionReportBalanced ==
    /\ [](pm_pc \in {"scan", "done"} => PermissionCountersBalanced)
    /\ [](pm_pc = "dialogs" => pm_clock < pm_duration)
    /\ []((pm_pc = "done" /\ system # "darwin")
            => /\ pm_result.dialogs_detected = 0
               /\ pm_result.dialogs_handled = 0
               /\ pm_result.dialogs_failed = 0
               /\ pm_result.details = <<>>
               /\ pm_clicks = 0
               /\ pm_clock = 0)
    /\ <>(pm_pc = "done")

C40_Witness ==
    /\ pm_pc = "done"
    /\ system = "darwin"
    /\ pm_result.dialogs_detected >= 2
    /\ pm_result.dialogs_handled >= 1
    /\ \E i \in DOMAIN pm_result.details : pm_result.details[i].action = "error"
====
